---- MODULE Spec2Model ----
(***************************************************************************)
(* State-machine model of the studybuddy client:                           *)
(*   - the quiz-taking view (TakeQuiz): answer map, cursor, flags,          *)
(*     countdown timer, submit mutation;                                    *)
(*   - the chat surfaces (ChatPage, ContextAwareChatbot): message list,     *)
(*     send / clear / history load, chat context and folder content;        *)
(*   - the mounting of the chat surfaces and the session ids they mint;     *)
(*   - the quiz generator form (QuizGenerator): URL and file intake,        *)
(*     generation parameters, generate request.                             *)
(* The backend is an opaque REST service: every request is answered, at a   *)
(* later step, by a success or a failure.                                   *)
(***************************************************************************)
EXTENDS Integers, Sequences, FiniteSets, TLC

\* ------------------------------------------------------------------ bounds
MaxQuestions == 2
MaxMinutes == 1
MaxManualSubmits == 2
MaxSends == 2
MaxClears == 1
MaxLoads == 1
MaxHistoryLoads == 1
MaxMounts == 3
MaxFiles == 2
MaxChosen == 2
MaxResultQuestions == 2
MaxExplains == 2
MaxTimers == 2

\* ------------------------------------------------------- program constants
SecondsPerMinute == 60

\* timeRemaining === null
Null == -1

\* option keys of a question; a string is the sequence of its characters
OptionKeys == {<<"a">>, <<"b">>}

\* values the radio group of an mcq or true_false question delivers
AnswerValues == OptionKeys

\* values the textarea of a short_answer question delivers: erased or typed text
TextValues == {<<>>, <<"x">>}

VARIABLES
  \* ---- TakeQuiz
  qStatus,            \* useQuery: "loading" | "error" | "loaded"
  testData,           \* [n |-> number of questions, estimated_time |-> minutes,
                      \*  types |-> the type of each question]
  currentQuestion,
  answers,            \* Record<number,string>: function on the set of its keys
  timeRemaining,      \* Null or seconds
  isSubmitted,
  flaggedQuestions,
  showSubmitConfirm,
  timerAnswers,       \* answers captured by the closure of the running interval
  mutStatus,          \* submitMutation observer: "idle"|"pending"|"success"|"error"
  olderInFlight,      \* requests of earlier mutate() calls still unanswered
  lastPayload,        \* <<>> or <<answers sent by the latest mutate()>>
  submitCount,        \* submission requests issued so far
  autoCount,          \* of which issued by the timer
  manualCount,        \* of which issued by the confirm button
  tickCount,          \* interval callbacks run so far
  manualTouched,      \* some user event has been handled
  navigated           \* nav() to the results view has been called

quizVars == <<qStatus, testData, currentQuestion, answers, timeRemaining,
              isSubmitted, flaggedQuestions, showSubmitConfirm, timerAnswers,
              mutStatus, olderInFlight, lastPayload, submitCount, autoCount,
              manualCount, tickCount, manualTouched, navigated>>

VARIABLES
  \* ---- chat surface (ChatPage or ContextAwareChatbot)
  surface,            \* "page" | "fab": which component this surface is
  messages,           \* ChatMessage[]: sequence of [type, message]
  inputMessage,       \* sequence of characters
  isLoading,
  sends,              \* running sendMessage calls: [pc, ctx, text] each
  folders,            \* folder ids offered by the folder select
  loadingFolders,
  folderLoads,        \* getFolders requests in flight
  selectedFolder,     \* "" or a folder id
  folderContent,      \* NoContent or the id of the folder whose content it is
  context,            \* ChatContext
  contentLoads,       \* getFolderAvailableContent requests in flight, per folder
  loadingContent,
  clearsInFlight,     \* clearChatHistory requests in flight
  historyLoads,       \* getChatHistory requests in flight
  serverHistory,      \* backend: (user, ai) entries of this session
  sendsStarted,       \* sendMessage calls that passed the guard
  pushRequests,       \* update-context requests issued
  pushOk,             \* ... answered with success
  pushFail,           \* ... answered with failure
  msgRequests,        \* chat-message requests issued
  lastOp              \* <<handler or callback that ran last, its argument>>

chatVars == <<surface, messages, inputMessage, isLoading, sends, folders,
              loadingFolders, folderLoads, selectedFolder, folderContent,
              context, contentLoads, loadingContent, clearsInFlight,
              historyLoads, serverHistory, sendsStarted, pushRequests, pushOk,
              pushFail, msgRequests, lastOp>>

VARIABLES
  \* ---- TakeQuiz, the user's side of the multi-select checkboxes
  checkedKeys         \* per question index: option keys the user has left checked

multiVars == <<checkedKeys>>

VARIABLES
  \* ---- App: which chat surface is mounted, and with which session id
  pathname,           \* location.pathname: "/chat" or "/"
  isOpen,             \* useChatbot: the floating chatbot is open
  pageSessionId,      \* sessionId state of the mounted ChatPage, or NoSession
  botSessionId,       \* sessionId state of the mounted ContextAwareChatbot
  minted,             \* session ids minted so far in this tab
  chatCalls           \* <<endpoint, x-session-id>> of the chat calls issued

sessVars == <<pathname, isOpen, pageSessionId, botSessionId, minted, chatCalls>>

VARIABLES
  \* ---- QuizGenerator
  questionCount,
  questionTypes,      \* [mcq, tf, short, long -> BOOLEAN]
  difficulty,
  urlsText,           \* textarea content: sequence of characters
  urlsList,           \* accepted URLs
  files,              \* accepted files: sequence of [name, type]
  loading,
  genNavigated,       \* navigate() to the generated quiz has been called
  toasts,             \* notifications raised by the handler that ran last
  genRequest          \* generation request in flight: "none"|"links"|"pdfs"

genVars == <<questionCount, questionTypes, difficulty, urlsText, urlsList,
             files, loading, genNavigated, toasts, genRequest>>

VARIABLES
  \* ---- QuizResults
  resStatus,          \* submission data: "loading" | "error" | "loaded"
  submission,         \* questions_with_answers: sequence of question results
  selfScores,         \* buffered self-scores: function on the set of its keys
  openQuestions,      \* indices whose collapsible is open
  explanationLoading, \* indices whose loading flag is true
  explanations,       \* explanation text per index: function on its keys
  explInFlight,       \* explain-answer requests in flight, per index
  savePending,        \* updateScoresMutation.isPending
  sentScores,         \* <<>> or <<scores of the latest update-scores request>>
  resToast            \* title of the notification raised last, "" for none

resVars == <<resStatus, submission, selfScores, openQuestions,
             explanationLoading, explanations, explInFlight, savePending, sentScores, resToast>>

VARIABLES
  \* ---- FolderDetailsPage
  serverLinks,        \* link ids of the folder on the server, in list order
  links,              \* data of the folder-links query
  linksFetching,      \* a folder-links request is in flight
  selected,           \* selected link ids
  selectAll,
  showGenModal,
  testType,           \* "normal" | "comprehensive"
  qTypes,             \* [mcq, tf, short, long -> BOOLEAN]
  delPending,         \* link id of the running delete, "" for none
  genPending,         \* genTestMut.isPending
  genPayload,         \* payload of the latest generation request, or NoPayload
  fdToast             \* title of the notification raised last, "" for none

fdVars == <<serverLinks, links, linksFetching, selected, selectAll,
            showGenModal, testType, qTypes, delPending, genPending,
            genPayload, fdToast>>

VARIABLES
  \* ---- one instance of the useChatbot hook
  hookIsOpen,         \* its isOpen state
  initialContext,     \* folder id of the stored context, or Undefined
  closeTimers         \* pending timeouts of closeChatbot, oldest first:
                      \* [isOpen |-> the isOpen its callback closed over,
                      \*  left |-> ms until it fires,
                      \*  reopened |-> openChatbot was called since]

hookVars == <<hookIsOpen, initialContext, closeTimers>>

\* the components modelled after TakeQuiz and the chat surfaces
pageVars == <<sessVars, genVars, resVars, fdVars, hookVars>>

\* what the handlers of one component leave alone
notQuizVars == <<chatVars, multiVars, pageVars>>
notChatVars == <<quizVars, multiVars, pageVars>>
notSessVars == <<quizVars, chatVars, multiVars, genVars, resVars, fdVars,
                 hookVars>>
notGenVars == <<quizVars, chatVars, multiVars, sessVars, resVars, fdVars,
                hookVars>>
notResVars == <<quizVars, chatVars, multiVars, sessVars, genVars, fdVars,
                hookVars>>
notFdVars == <<quizVars, chatVars, multiVars, sessVars, genVars, resVars,
               hookVars>>
notHookVars == <<quizVars, chatVars, multiVars, sessVars, genVars, resVars,
                 fdVars>>

vars == <<quizVars, chatVars, multiVars, pageVars>>

\* ----------------------------------------------------------------- TakeQuiz

NoTest == [n |-> 0, estimated_time |-> 0, types |-> <<>>]

\* a test of n questions, all of one type
UniformTest(n, m, type) ==
  [n |-> n, estimated_time |-> m, types |-> [i \in 1..n |-> type]]

\* tests the backend may return: n questions, estimated_time minutes (0: unset);
\* the timed ones have at most one question
Tests ==
  {UniformTest(n, m, "mcq") : n \in 0..MaxQuestions, m \in 0..MaxMinutes}
    \ {UniformTest(n, m, "mcq") : n \in 2..MaxQuestions, m \in 1..MaxMinutes}

EmptyAnswers == [k \in {} |-> <<>>]

\* { ...prev, [key]: value }
SetKey(obj, key, value) ==
  [k \in (DOMAIN obj) \cup {key} |-> IF k = key THEN value ELSE obj[k]]

\* the quiz body (header, questions, dialog) is rendered
Rendered ==
  /\ qStatus = "loaded"
  /\ testData.n > 0
  /\ ~navigated

\* submitMutation.isPending
isPending == mutStatus = "pending"

\* the interval of the countdown effect is installed
TimerRunning ==
  /\ ~navigated
  /\ ~(timeRemaining = Null \/ timeRemaining <= 0 \/ isSubmitted)

InitQuiz ==
  /\ qStatus = "loading"
  /\ testData = NoTest
  /\ currentQuestion = 0
  /\ answers = EmptyAnswers
  /\ timeRemaining = Null
  /\ isSubmitted = FALSE
  /\ flaggedQuestions = {}
  /\ showSubmitConfirm = FALSE
  /\ timerAnswers = EmptyAnswers
  /\ mutStatus = "idle"
  /\ olderInFlight = 0
  /\ lastPayload = <<>>
  /\ submitCount = 0
  /\ autoCount = 0
  /\ manualCount = 0
  /\ tickCount = 0
  /\ manualTouched = FALSE
  /\ navigated = FALSE

\* LoadOk that takes estimated_time for seconds
LoadOk_minutesAsSeconds(t) ==
  /\ qStatus = "loading"
  /\ qStatus' = "loaded"
  /\ testData' = t
  /\ timeRemaining' = IF t.estimated_time # 0 /\ timeRemaining = Null
                        THEN t.estimated_time
                        ELSE timeRemaining
  /\ timerAnswers' = answers
  /\ UNCHANGED <<currentQuestion, answers, isSubmitted, flaggedQuestions,
                 showSubmitConfirm, mutStatus, olderInFlight, lastPayload,
                 submitCount, autoCount, manualCount, tickCount, manualTouched,
                 navigated>>
  /\ UNCHANGED notQuizVars

\* useQuery resolves; the "Initialize timer" effect runs on the new testData and
\* the countdown effect installs its interval with the closure of that render
LoadOk(t) ==
  /\ qStatus = "loading"
  /\ qStatus' = "loaded"
  /\ testData' = t
  /\ timeRemaining' = IF t.estimated_time # 0 /\ timeRemaining = Null
                        THEN t.estimated_time * SecondsPerMinute
                        ELSE timeRemaining
  /\ timerAnswers' = answers
  /\ UNCHANGED <<currentQuestion, answers, isSubmitted, flaggedQuestions,
                 showSubmitConfirm, mutStatus, olderInFlight, lastPayload,
                 submitCount, autoCount, manualCount, tickCount, manualTouched,
                 navigated>>
  /\ UNCHANGED notQuizVars

LoadFail ==
  /\ qStatus = "loading"
  /\ qStatus' = "error"
  /\ UNCHANGED <<testData, currentQuestion, answers, timeRemaining, isSubmitted,
                 flaggedQuestions, showSubmitConfirm, timerAnswers, mutStatus,
                 olderInFlight, lastPayload, submitCount, autoCount,
                 manualCount, tickCount, manualTouched, navigated>>
  /\ UNCHANGED notQuizVars

\* submitMutation.mutate({ answers: payload }): a new request is sent; the
\* observer follows the new mutation, an unanswered earlier one stays in flight
Mutate(payload) ==
  /\ mutStatus' = "pending"
  /\ olderInFlight' = IF isPending THEN olderInFlight + 1 ELSE olderInFlight
  /\ lastPayload' = <<payload>>
  /\ submitCount' = submitCount + 1

\* handleSubmit of the render that is on screen
handleSubmit ==
  /\ Mutate(answers)
  /\ manualCount' = manualCount + 1
  /\ UNCHANGED autoCount

\* handleAutoSubmit of the render captured by the interval: its isSubmitted is
\* the current one (the effect depends on it), its answers are timerAnswers
handleAutoSubmit ==
  IF ~isSubmitted
    THEN /\ Mutate(timerAnswers)
         /\ autoCount' = autoCount + 1
         /\ UNCHANGED manualCount
    ELSE UNCHANGED <<mutStatus, olderInFlight, lastPayload, submitCount,
                     autoCount, manualCount>>

\* Tick with the expiry test off by one (prev <= 0 instead of prev <= 1)
Tick_expiryOffByOne ==
  /\ TimerRunning
  /\ IF timeRemaining = Null \/ timeRemaining <= 0
       THEN /\ handleAutoSubmit
            /\ timeRemaining' = 0
       ELSE /\ timeRemaining' = timeRemaining - 1
            /\ UNCHANGED <<mutStatus, olderInFlight, lastPayload, submitCount,
                           autoCount, manualCount>>
  /\ timerAnswers' = answers
  /\ tickCount' = tickCount + 1
  /\ UNCHANGED <<qStatus, testData, currentQuestion, answers, isSubmitted,
                 flaggedQuestions, showSubmitConfirm, manualTouched, navigated>>
  /\ UNCHANGED notQuizVars

\* one interval callback; the countdown effect then re-runs because
\* timeRemaining changed and captures the answers of the new render
Tick ==
  /\ TimerRunning
  /\ IF timeRemaining = Null \/ timeRemaining <= 1
       THEN /\ handleAutoSubmit
            /\ timeRemaining' = 0
       ELSE /\ timeRemaining' = timeRemaining - 1
            /\ UNCHANGED <<mutStatus, olderInFlight, lastPayload, submitCount,
                           autoCount, manualCount>>
  /\ timerAnswers' = answers
  /\ tickCount' = tickCount + 1
  /\ UNCHANGED <<qStatus, testData, currentQuestion, answers, isSubmitted,
                 flaggedQuestions, showSubmitConfirm, manualTouched, navigated>>
  /\ UNCHANGED notQuizVars

\* header Submit button: onClick={() => setShowSubmitConfirm(true)}
OpenSubmitConfirm ==
  /\ Rendered
  /\ ~isPending
  /\ showSubmitConfirm' = TRUE
  /\ manualTouched' = TRUE
  /\ UNCHANGED <<qStatus, testData, currentQuestion, answers, timeRemaining,
                 isSubmitted, flaggedQuestions, timerAnswers, mutStatus,
                 olderInFlight, lastPayload, submitCount, autoCount,
                 manualCount, tickCount, navigated>>
  /\ UNCHANGED notQuizVars

\* "Review More"
CloseSubmitConfirm ==
  /\ Rendered
  /\ showSubmitConfirm
  /\ showSubmitConfirm' = FALSE
  /\ manualTouched' = TRUE
  /\ UNCHANGED <<qStatus, testData, currentQuestion, answers, timeRemaining,
                 isSubmitted, flaggedQuestions, timerAnswers, mutStatus,
                 olderInFlight, lastPayload, submitCount, autoCount,
                 manualCount, tickCount, navigated>>
  /\ UNCHANGED notQuizVars

\* CanConfirmSubmit with the dialog's button reachable while the dialog is closed
CanConfirmSubmit_dialogNotRequired ==
  /\ Rendered
  /\ ~isPending

\* the "Submit Quiz" button of the dialog is there and enabled
CanConfirmSubmit ==
  /\ Rendered
  /\ showSubmitConfirm
  /\ ~isPending

\* "Submit Quiz": onClick={handleSubmit}
ConfirmSubmit ==
  /\ CanConfirmSubmit
  /\ manualCount < MaxManualSubmits
  /\ handleSubmit
  /\ manualTouched' = TRUE
  /\ UNCHANGED <<qStatus, testData, currentQuestion, answers, timeRemaining,
                 isSubmitted, flaggedQuestions, showSubmitConfirm, timerAnswers,
                 tickCount, navigated>>
  /\ UNCHANGED notQuizVars

\* onSuccess: setIsSubmitted(true); nav(results)
onSuccess ==
  /\ isSubmitted' = TRUE
  /\ navigated' = TRUE

\* onError that marks the quiz submitted like onSuccess
onError_marksSubmitted ==
  /\ isSubmitted' = TRUE
  /\ navigated' = TRUE

\* onError: toast only
onError ==
  UNCHANGED <<isSubmitted, navigated>>

\* the request of the latest mutate() is answered
SubmitResponse(ok) ==
  /\ isPending
  /\ mutStatus' = IF ok THEN "success" ELSE "error"
  /\ IF ok THEN onSuccess ELSE onError
  /\ UNCHANGED <<qStatus, testData, currentQuestion, answers, timeRemaining,
                 flaggedQuestions, showSubmitConfirm, timerAnswers,
                 olderInFlight, lastPayload, submitCount, autoCount,
                 manualCount, tickCount, manualTouched>>
  /\ UNCHANGED notQuizVars

\* the request of an earlier mutate() is answered: its callbacks run, the
\* observer state is that of the latest mutation and does not change
OlderSubmitResponse(ok) ==
  /\ olderInFlight > 0
  /\ olderInFlight' = olderInFlight - 1
  /\ IF ok THEN onSuccess ELSE onError
  /\ UNCHANGED <<qStatus, testData, currentQuestion, answers, timeRemaining,
                 flaggedQuestions, showSubmitConfirm, timerAnswers, mutStatus,
                 lastPayload, submitCount, autoCount, manualCount, tickCount,
                 manualTouched>>
  /\ UNCHANGED notQuizVars

\* the type of the question under the cursor
QuestionType == testData.types[currentQuestion + 1]

\* values the answer control rendered for a question type can deliver
ControlValues(type) ==
  IF type = "mcq" \/ type = "true_false" THEN AnswerValues
  ELSE IF \/ type = "short_answer"
          \/ type = "fill_blanks"
          \/ type = "long_answer" THEN TextValues
  ELSE {}

handleAnswerChange(value) ==
  /\ Rendered
  /\ value \in ControlValues(QuestionType)
  /\ answers' = SetKey(answers, currentQuestion, value)
  /\ manualTouched' = TRUE
  /\ UNCHANGED <<qStatus, testData, currentQuestion, timeRemaining, isSubmitted,
                 flaggedQuestions, showSubmitConfirm, timerAnswers, mutStatus,
                 olderInFlight, lastPayload, submitCount, autoCount,
                 manualCount, tickCount, navigated>>
  /\ UNCHANGED notQuizVars

\* String.prototype.split(",")
RECURSIVE SplitComma(_)
SplitComma(s) ==
  IF \A i \in 1..Len(s) : s[i] # ","
    THEN <<s>>
    ELSE LET i == CHOOSE i \in 1..Len(s) :
                    s[i] = "," /\ \A j \in 1..(i - 1) : s[j] # ","
         IN  <<SubSeq(s, 1, i - 1)>> \o SplitComma(SubSeq(s, i + 1, Len(s)))

\* Array.prototype.join(",")
RECURSIVE JoinComma(_)
JoinComma(list) ==
  IF list = <<>> THEN <<>>
  ELSE IF Len(list) = 1 THEN list[1]
  ELSE list[1] \o <<",">> \o JoinComma(Tail(list))

\* answers[currentQuestion] ? answers[currentQuestion].split(",") : []
CurrentSelections ==
  LET currentAnswer == IF currentQuestion \in DOMAIN answers
                         THEN answers[currentQuestion] ELSE <<>>
  IN  IF currentAnswer # <<>> THEN SplitComma(currentAnswer) ELSE <<>>

\* currentSelections.includes(key): the checked state a checkbox shows
ShownChecked(key) == \E i \in 1..Len(CurrentSelections) : CurrentSelections[i] = key

\* a click on the checkbox of `option` delivers the negation of its shown state
handleMultiSelectChange(option, checked) ==
  /\ Rendered
  /\ QuestionType = "multi_select"
  /\ checked = ~ShownChecked(option)
  /\ LET newSelections ==
           IF checked
             THEN Append(CurrentSelections, option)
             ELSE SelectSeq(CurrentSelections, LAMBDA sel : sel # option)
     IN  answers' = SetKey(answers, currentQuestion, JoinComma(newSelections))
  /\ checkedKeys' = [checkedKeys EXCEPT
                       ![currentQuestion] = IF checked THEN @ \cup {option}
                                                       ELSE @ \ {option}]
  /\ manualTouched' = TRUE
  /\ UNCHANGED <<qStatus, testData, currentQuestion, timeRemaining, isSubmitted,
                 flaggedQuestions, showSubmitConfirm, timerAnswers, mutStatus,
                 olderInFlight, lastPayload, submitCount, autoCount,
                 manualCount, tickCount, navigated>>
  /\ UNCHANGED <<chatVars, pageVars>>

\* goToQuestion without the upper bound of the range test
goToQuestion_noUpperBound(index) ==
  /\ Rendered
  /\ currentQuestion' = IF index >= 0 THEN index ELSE currentQuestion
  /\ manualTouched' = TRUE
  /\ UNCHANGED <<qStatus, testData, answers, timeRemaining, isSubmitted,
                 flaggedQuestions, showSubmitConfirm, timerAnswers, mutStatus,
                 olderInFlight, lastPayload, submitCount, autoCount,
                 manualCount, tickCount, navigated>>
  /\ UNCHANGED notQuizVars

goToQuestion(index) ==
  /\ Rendered
  /\ currentQuestion' = IF index >= 0 /\ index < testData.n
                          THEN index ELSE currentQuestion
  /\ manualTouched' = TRUE
  /\ UNCHANGED <<qStatus, testData, answers, timeRemaining, isSubmitted,
                 flaggedQuestions, showSubmitConfirm, timerAnswers, mutStatus,
                 olderInFlight, lastPayload, submitCount, autoCount,
                 manualCount, tickCount, navigated>>
  /\ UNCHANGED notQuizVars

toggleFlag(index) ==
  /\ Rendered
  /\ index = currentQuestion
  /\ flaggedQuestions' = IF index \in flaggedQuestions
                           THEN flaggedQuestions \ {index}
                           ELSE flaggedQuestions \cup {index}
  /\ manualTouched' = TRUE
  /\ UNCHANGED <<qStatus, testData, currentQuestion, answers, timeRemaining,
                 isSubmitted, showSubmitConfirm, timerAnswers, mutStatus,
                 olderInFlight, lastPayload, submitCount, autoCount,
                 manualCount, tickCount, navigated>>
  /\ UNCHANGED notQuizVars

NextQuiz ==
  \/ \E t \in Tests : LoadOk(t)
  \/ LoadFail
  \/ Tick
  \/ OpenSubmitConfirm
  \/ CloseSubmitConfirm
  \/ ConfirmSubmit
  \/ \E ok \in BOOLEAN : SubmitResponse(ok)
  \/ \E ok \in BOOLEAN : OlderSubmitResponse(ok)
  \/ \E v \in AnswerValues : handleAnswerChange(v)
  \/ \E i \in -1..MaxQuestions : goToQuestion(i)
  \/ \E i \in 0..(MaxQuestions - 1) : toggleFlag(i)

\* tests whose questions are answered by a textarea or by checkboxes, untimed
AnswerTests ==
  UNION {{[n |-> n, estimated_time |-> 0, types |-> ty] :
            ty \in [1..n -> {"short_answer", "multi_select"}]} :
         n \in 1..MaxQuestions}

InitMulti == checkedKeys = [i \in 0..(MaxQuestions - 1) |-> {}]

\* answering and manual submission
NextAnswers ==
  \/ \E t \in AnswerTests : LoadOk(t)
  \/ \E v \in TextValues : handleAnswerChange(v)
  \/ \E k \in OptionKeys, c \in BOOLEAN : handleMultiSelectChange(k, c)
  \/ \E i \in -1..MaxQuestions : goToQuestion(i)
  \/ OpenSubmitConfirm
  \/ CloseSubmitConfirm
  \/ ConfirmSubmit
  \/ \E ok \in BOOLEAN : SubmitResponse(ok)

\* ------------------------------------------------------------ chat surfaces

Surfaces == {"page", "fab"}

\* folders of the backend and their available content (ids are unique)
FolderIds == {"A", "B"}

LinksOf(f) == IF f = "A" THEN {"a1"} ELSE {"b1"}

TestsOf(f) == IF f = "A" THEN {"ta"} ELSE {}

SubmissionsOf(f) == IF f = "A" THEN {} ELSE {"sb"}

Kinds == {"links", "tests", "submissions"}

\* FolderContent[type] of the content of folder f, as a set of ids
ContentIds(f, type) ==
  IF type = "links" THEN LinksOf(f)
  ELSE IF type = "tests" THEN TestsOf(f)
  ELSE SubmissionsOf(f)

\* `selected_${type.slice(0, -1)}_ids`
KeyOf(type) ==
  IF type = "links" THEN "selected_link_ids"
  ELSE IF type = "tests" THEN "selected_test_ids"
  ELSE "selected_submission_ids"

\* a ChatContext without folder_id key
Undefined == "undefined"

\* folderContent === null
NoContent == "null"

EmptyContext ==
  [folder_id |-> Undefined, selected_link_ids |-> <<>>,
   selected_test_ids |-> <<>>, selected_submission_ids |-> <<>>]

\* Object.keys(context).length
ContextKeyCount(ctx) == 3 + (IF ctx.folder_id = Undefined THEN 0 ELSE 1)

\* texts the user can have in the message input: empty, blank, plain, padded
InputTexts == {<<>>, <<" ">>, <<"a">>, <<" ", "a", " ">>}

\* characters String.prototype.trim removes
Whitespace == {" ", "\n", "\r"}

RECURSIVE TrimLeft(_)
TrimLeft(s) ==
  IF s # <<>> /\ Head(s) \in Whitespace THEN TrimLeft(Tail(s)) ELSE s

RECURSIVE TrimRight(_)
TrimRight(s) ==
  IF s # <<>> /\ s[Len(s)] \in Whitespace
    THEN TrimRight(SubSeq(s, 1, Len(s) - 1))
    ELSE s

\* String.prototype.trim
Trim(s) == TrimRight(TrimLeft(s))

\* response.response of a successful chat-message request
ReplyText == <<"reply">>

\* 'Sorry, I encountered an error. Please try again.'
ErrorText == <<"error">>

UserMsg(text) == [type |-> "user", message |-> text]

AiMsg(text) == [type |-> "ai", message |-> text]

\* history.chat_history.flatMap(entry => [user message, ai message])
RECURSIVE FormatHistory(_)
FormatHistory(h) ==
  IF h = <<>> THEN <<>>
  ELSE <<UserMsg(h[1].user), AiMsg(h[1].ai)>> \o FormatHistory(Tail(h))

Includes(seq, x) == \E i \in DOMAIN seq : seq[i] = x

\* seq.filter(e => e !== x)
Without(seq, x) == SelectSeq(seq, LAMBDA e : e # x)

RemoveAt(seq, i) == SubSeq(seq, 1, i - 1) \o SubSeq(seq, i + 1, Len(seq))

\* value of the "General Assistance" item of the folder select
NoneValue == IF surface = "page" THEN "none" ELSE ""

InitChat ==
  /\ surface \in Surfaces
  /\ messages = <<>>
  /\ inputMessage = <<>>
  /\ isLoading = FALSE
  /\ sends = <<>>
  /\ folders = {}
  /\ loadingFolders = TRUE
  /\ folderLoads = 1
  /\ selectedFolder = ""
  /\ folderContent = NoContent
  /\ context = EmptyContext
  /\ contentLoads = [f \in FolderIds |-> 0]
  /\ loadingContent = FALSE
  /\ clearsInFlight = 0
  /\ historyLoads = IF surface = "page" THEN 1 ELSE 0
  /\ serverHistory = <<>>
  /\ sendsStarted = 0
  /\ pushRequests = 0
  /\ pushOk = 0
  /\ pushFail = 0
  /\ msgRequests = 0
  /\ lastOp = <<"mount", "">>

\* onChange={(e) => setInputMessage(e.target.value)}; the input is disabled
\* while isLoading
setInputMessage(text) ==
  /\ ~isLoading
  /\ inputMessage' = text
  /\ lastOp' = <<"setInputMessage", "">>
  /\ UNCHANGED <<surface, messages, isLoading, sends, folders, loadingFolders,
                 folderLoads, selectedFolder, folderContent, context,
                 contentLoads, loadingContent, clearsInFlight, historyLoads,
                 serverHistory, sendsStarted, pushRequests, pushOk, pushFail,
                 msgRequests>>
  /\ UNCHANGED notChatVars

\* sendMessage without the blank-input test
sendMessage_noBlankTest ==
  /\ IF isLoading
       THEN /\ lastOp' = <<"sendMessage", "noop">>
            /\ UNCHANGED <<messages, inputMessage, isLoading, sends,
                           sendsStarted, pushRequests, msgRequests>>
       ELSE /\ sendsStarted < MaxSends
            /\ messages' = Append(messages, UserMsg(Trim(inputMessage)))
            /\ inputMessage' = <<>>
            /\ isLoading' = TRUE
            /\ sendsStarted' = sendsStarted + 1
            /\ IF ContextKeyCount(context) > 0
                 THEN /\ sends' = Append(sends, [pc |-> "push", ctx |-> context,
                                                 text |-> Trim(inputMessage)])
                      /\ pushRequests' = pushRequests + 1
                      /\ UNCHANGED msgRequests
                 ELSE /\ sends' = Append(sends, [pc |-> "msg", ctx |-> context,
                                                 text |-> Trim(inputMessage)])
                      /\ msgRequests' = msgRequests + 1
                      /\ UNCHANGED pushRequests
            /\ lastOp' = <<"sendMessage", "sent">>
  /\ UNCHANGED <<surface, folders, loadingFolders, folderLoads, selectedFolder,
                 folderContent, context, contentLoads, loadingContent,
                 clearsInFlight, historyLoads, serverHistory, pushOk, pushFail>>
  /\ UNCHANGED notChatVars

\* sendMessage up to its first await: the guard, the user message, and the
\* update-context request (or the chat-message request when the context object
\* has no keys)
sendMessage ==
  /\ IF Trim(inputMessage) = <<>> \/ isLoading
       THEN /\ lastOp' = <<"sendMessage", "noop">>
            /\ UNCHANGED <<messages, inputMessage, isLoading, sends,
                           sendsStarted, pushRequests, msgRequests>>
       ELSE /\ sendsStarted < MaxSends
            /\ messages' = Append(messages, UserMsg(Trim(inputMessage)))
            /\ inputMessage' = <<>>
            /\ isLoading' = TRUE
            /\ sendsStarted' = sendsStarted + 1
            /\ IF ContextKeyCount(context) > 0
                 THEN /\ sends' = Append(sends, [pc |-> "push", ctx |-> context,
                                                 text |-> Trim(inputMessage)])
                      /\ pushRequests' = pushRequests + 1
                      /\ UNCHANGED msgRequests
                 ELSE /\ sends' = Append(sends, [pc |-> "msg", ctx |-> context,
                                                 text |-> Trim(inputMessage)])
                      /\ msgRequests' = msgRequests + 1
                      /\ UNCHANGED pushRequests
            /\ lastOp' = <<"sendMessage", "sent">>
  /\ UNCHANGED <<surface, folders, loadingFolders, folderLoads, selectedFolder,
                 folderContent, context, contentLoads, loadingContent,
                 clearsInFlight, historyLoads, serverHistory, pushOk, pushFail>>
  /\ UNCHANGED notChatVars

\* updateChatContext whose failure aborts the send (error path of sendMessage)
updateChatContext_failureAborts(i, ok) ==
  /\ i \in DOMAIN sends
  /\ sends[i].pc = "push"
  /\ IF ok
       THEN /\ context' = sends[i].ctx
            /\ pushOk' = pushOk + 1
            /\ sends' = [sends EXCEPT ![i].pc = "msg"]
            /\ msgRequests' = msgRequests + 1
            /\ UNCHANGED <<pushFail, messages, isLoading>>
       ELSE /\ pushFail' = pushFail + 1
            /\ messages' = Append(messages, AiMsg(ErrorText))
            /\ isLoading' = FALSE
            /\ sends' = RemoveAt(sends, i)
            /\ UNCHANGED <<context, pushOk, msgRequests>>
  /\ lastOp' = <<"updateChatContext", IF ok THEN "ok" ELSE "fail">>
  /\ UNCHANGED <<surface, inputMessage, folders, loadingFolders,
                 folderLoads, selectedFolder, folderContent, contentLoads,
                 loadingContent, clearsInFlight, historyLoads, serverHistory,
                 sendsStarted, pushRequests>>
  /\ UNCHANGED notChatVars

\* the update-context request of send i is answered: updateChatContext stores
\* the pushed context on success and swallows a failure; sendMessage goes on
\* to issue the chat-message request
updateChatContext(i, ok) ==
  /\ i \in DOMAIN sends
  /\ sends[i].pc = "push"
  /\ IF ok
       THEN /\ context' = sends[i].ctx
            /\ pushOk' = pushOk + 1
            /\ UNCHANGED pushFail
       ELSE /\ pushFail' = pushFail + 1
            /\ UNCHANGED <<context, pushOk>>
  /\ sends' = [sends EXCEPT ![i].pc = "msg"]
  /\ msgRequests' = msgRequests + 1
  /\ lastOp' = <<"updateChatContext", IF ok THEN "ok" ELSE "fail">>
  /\ UNCHANGED <<surface, messages, inputMessage, isLoading, folders,
                 loadingFolders, folderLoads, selectedFolder, folderContent,
                 contentLoads, loadingContent, clearsInFlight, historyLoads,
                 serverHistory, sendsStarted, pushRequests>>
  /\ UNCHANGED notChatVars

\* the chat-message request of send i is answered: try / catch / finally of
\* sendMessage; the backend records the exchange it answered
sendChatMessageDone(i, ok) ==
  /\ i \in DOMAIN sends
  /\ sends[i].pc = "msg"
  /\ IF ok
       THEN /\ messages' = Append(messages, AiMsg(ReplyText))
            /\ serverHistory' = Append(serverHistory,
                                       [user |-> sends[i].text, ai |-> ReplyText])
       ELSE /\ messages' = Append(messages, AiMsg(ErrorText))
            /\ UNCHANGED serverHistory
  /\ isLoading' = FALSE
  /\ sends' = RemoveAt(sends, i)
  /\ lastOp' = <<"sendChatMessage", IF ok THEN "ok" ELSE "fail">>
  /\ UNCHANGED <<surface, inputMessage, folders, loadingFolders, folderLoads,
                 selectedFolder, folderContent, context, contentLoads,
                 loadingContent, clearsInFlight, historyLoads, sendsStarted,
                 pushRequests, pushOk, pushFail, msgRequests>>
  /\ UNCHANGED notChatVars

\* clearChat up to its await: the clear request is sent
clearChat ==
  /\ clearsInFlight < MaxClears
  /\ clearsInFlight' = clearsInFlight + 1
  /\ lastOp' = <<"clearChat", "sent">>
  /\ UNCHANGED <<surface, messages, inputMessage, isLoading, sends, folders,
                 loadingFolders, folderLoads, selectedFolder, folderContent,
                 context, contentLoads, loadingContent, historyLoads,
                 serverHistory, sendsStarted, pushRequests, pushOk, pushFail,
                 msgRequests>>
  /\ UNCHANGED notChatVars

\* clearChat that empties the list whatever the answer
clearChatDone_unconditional(ok) ==
  /\ clearsInFlight > 0
  /\ clearsInFlight' = clearsInFlight - 1
  /\ messages' = <<>>
  /\ serverHistory' = IF ok THEN <<>> ELSE serverHistory
  /\ lastOp' = <<"clearChatHistory", IF ok THEN "ok" ELSE "fail">>
  /\ UNCHANGED <<surface, inputMessage, isLoading, sends, folders,
                 loadingFolders, folderLoads, selectedFolder, folderContent,
                 context, contentLoads, loadingContent, historyLoads,
                 sendsStarted, pushRequests, pushOk, pushFail, msgRequests>>
  /\ UNCHANGED notChatVars

\* the clear request is answered: setMessages([]) follows the await inside the
\* try block, the catch block only logs
clearChatDone(ok) ==
  /\ clearsInFlight > 0
  /\ clearsInFlight' = clearsInFlight - 1
  /\ IF ok
       THEN /\ messages' = <<>>
            /\ serverHistory' = <<>>
       ELSE UNCHANGED <<messages, serverHistory>>
  /\ lastOp' = <<"clearChatHistory", IF ok THEN "ok" ELSE "fail">>
  /\ UNCHANGED <<surface, inputMessage, isLoading, sends, folders,
                 loadingFolders, folderLoads, selectedFolder, folderContent,
                 context, contentLoads, loadingContent, historyLoads,
                 sendsStarted, pushRequests, pushOk, pushFail, msgRequests>>
  /\ UNCHANGED notChatVars

\* Refresh button of the chat page: loadChatHistory up to its await
loadChatHistory ==
  /\ surface = "page"
  /\ historyLoads < MaxHistoryLoads
  /\ historyLoads' = historyLoads + 1
  /\ lastOp' = <<"loadChatHistory", "sent">>
  /\ UNCHANGED <<surface, messages, inputMessage, isLoading, sends, folders,
                 loadingFolders, folderLoads, selectedFolder, folderContent,
                 context, contentLoads, loadingContent, clearsInFlight,
                 serverHistory, sendsStarted, pushRequests, pushOk, pushFail,
                 msgRequests>>
  /\ UNCHANGED notChatVars

\* a history request (mount effect or Refresh) is answered
loadChatHistoryDone(ok) ==
  /\ historyLoads > 0
  /\ historyLoads' = historyLoads - 1
  /\ messages' = IF ok THEN FormatHistory(serverHistory) ELSE messages
  /\ lastOp' = <<"getChatHistory", IF ok THEN "ok" ELSE "fail">>
  /\ UNCHANGED <<surface, inputMessage, isLoading, sends, folders,
                 loadingFolders, folderLoads, selectedFolder, folderContent,
                 context, contentLoads, loadingContent, clearsInFlight,
                 serverHistory, sendsStarted, pushRequests, pushOk, pushFail,
                 msgRequests>>
  /\ UNCHANGED notChatVars

\* a getFolders request is answered: try / catch / finally of loadFolders
loadFoldersDone(ok) ==
  /\ folderLoads > 0
  /\ folderLoads' = folderLoads - 1
  /\ folders' = IF ok THEN FolderIds ELSE folders
  /\ loadingFolders' = FALSE
  /\ lastOp' = <<"getFolders", IF ok THEN "ok" ELSE "fail">>
  /\ UNCHANGED <<surface, messages, inputMessage, isLoading, sends,
                 selectedFolder, folderContent, context, contentLoads,
                 loadingContent, clearsInFlight, historyLoads, serverHistory,
                 sendsStarted, pushRequests, pushOk, pushFail, msgRequests>>
  /\ UNCHANGED notChatVars

\* effect on [selectedFolder]: loadFolderContent(next) up to its await, when
\* the selection changed to a non-empty id
SelectedFolderEffect(next) ==
  IF next # selectedFolder /\ next # ""
    THEN /\ contentLoads[next] < MaxLoads
         /\ contentLoads' = [contentLoads EXCEPT ![next] = @ + 1]
         /\ loadingContent' = TRUE
    ELSE UNCHANGED <<contentLoads, loadingContent>>

\* handleFolderChange that keeps the previous selections (...prev)
handleFolderChange_keepsSelections(folderId) ==
  /\ folderId \in folders \cup {NoneValue}
  /\ surface = "page" => ~loadingFolders
  /\ IF surface = "page" /\ folderId = "none"
       THEN /\ selectedFolder' = ""
            /\ context' = [context EXCEPT !.folder_id = Undefined]
            /\ folderContent' = NoContent
            /\ SelectedFolderEffect("")
       ELSE /\ selectedFolder' = folderId
            /\ context' = [context EXCEPT !.folder_id = folderId]
            /\ UNCHANGED folderContent
            /\ SelectedFolderEffect(folderId)
  /\ lastOp' = <<"handleFolderChange", folderId>>
  /\ UNCHANGED <<surface, messages, inputMessage, isLoading, sends, folders,
                 loadingFolders, folderLoads, clearsInFlight, historyLoads,
                 serverHistory, sendsStarted, pushRequests, pushOk, pushFail,
                 msgRequests>>
  /\ UNCHANGED notChatVars

\* folder select onValueChange; the chat page treats "none" apart, the
\* floating chatbot stores whatever value it is given
handleFolderChange(folderId) ==
  /\ folderId \in folders \cup {NoneValue}
  /\ surface = "page" => ~loadingFolders
  /\ IF surface = "page" /\ folderId = "none"
       THEN /\ selectedFolder' = ""
            /\ context' = EmptyContext
            /\ folderContent' = NoContent
            /\ SelectedFolderEffect("")
       ELSE /\ selectedFolder' = folderId
            /\ context' = [EmptyContext EXCEPT !.folder_id = folderId]
            /\ UNCHANGED folderContent
            /\ SelectedFolderEffect(folderId)
  /\ lastOp' = <<"handleFolderChange", folderId>>
  /\ UNCHANGED <<surface, messages, inputMessage, isLoading, sends, folders,
                 loadingFolders, folderLoads, clearsInFlight, historyLoads,
                 serverHistory, sendsStarted, pushRequests, pushOk, pushFail,
                 msgRequests>>
  /\ UNCHANGED notChatVars

\* a getFolderAvailableContent request for folderId is answered
loadFolderContentDone(folderId, ok) ==
  /\ contentLoads[folderId] > 0
  /\ contentLoads' = [contentLoads EXCEPT ![folderId] = @ - 1]
  /\ folderContent' = IF ok THEN folderId ELSE folderContent
  /\ loadingContent' = FALSE
  /\ lastOp' = <<"getFolderAvailableContent", IF ok THEN "ok" ELSE "fail">>
  /\ UNCHANGED <<surface, messages, inputMessage, isLoading, sends, folders,
                 loadingFolders, folderLoads, selectedFolder, context,
                 clearsInFlight, historyLoads, serverHistory, sendsStarted,
                 pushRequests, pushOk, pushFail, msgRequests>>
  /\ UNCHANGED notChatVars

\* a checkbox of the displayed folder content is toggled
handleContentSelection(type, id, checked) ==
  /\ selectedFolder # ""
  /\ folderContent # NoContent
  /\ id \in ContentIds(folderContent, type)
  /\ checked = ~Includes(context[KeyOf(type)], id)
  /\ context' = [context EXCEPT ![KeyOf(type)] =
                   IF checked THEN Append(@, id) ELSE Without(@, id)]
  /\ lastOp' = <<"handleContentSelection", id>>
  /\ UNCHANGED <<surface, messages, inputMessage, isLoading, sends, folders,
                 loadingFolders, folderLoads, selectedFolder, folderContent,
                 contentLoads, loadingContent, clearsInFlight, historyLoads,
                 serverHistory, sendsStarted, pushRequests, pushOk, pushFail,
                 msgRequests>>
  /\ UNCHANGED notChatVars

\* seq of the ids of a set with at most one element
AsList(S) == IF S = {} THEN <<>> ELSE <<CHOOSE x \in S : TRUE>>

\* initial contexts handed to the floating chatbot: ChatbotContextBuilders
\* folder(f) and content(f, links of f)
InitialContexts ==
  [folderId : FolderIds, selectedLinkIds : {<<>>}]
    \cup {[folderId |-> f, selectedLinkIds |-> AsList(LinksOf(f))] : f \in FolderIds}

\* effect on [isVisible, initialContext] of the floating chatbot, run when the
\* initialContext prop changes while the chatbot is visible
initialContextEffect(ic) ==
  /\ surface = "fab"
  /\ folderLoads < MaxLoads
  /\ folderLoads' = folderLoads + 1
  /\ loadingFolders' = TRUE
  /\ selectedFolder' = ic.folderId
  /\ context' = [folder_id |-> ic.folderId,
                 selected_link_ids |-> ic.selectedLinkIds,
                 selected_test_ids |-> <<>>,
                 selected_submission_ids |-> <<>>]
  /\ SelectedFolderEffect(ic.folderId)
  /\ lastOp' = <<"initialContext", ic.folderId>>
  /\ UNCHANGED <<surface, messages, inputMessage, isLoading, sends, folders,
                 folderContent, clearsInFlight, historyLoads, serverHistory,
                 sendsStarted, pushRequests, pushOk, pushFail, msgRequests>>
  /\ UNCHANGED notChatVars

\* message traffic of a chat surface: input, send, clear, history
NextChat ==
  \/ \E text \in InputTexts : setInputMessage(text)
  \/ sendMessage
  \/ \E i \in 1..MaxSends, ok \in BOOLEAN : updateChatContext(i, ok)
  \/ \E i \in 1..MaxSends, ok \in BOOLEAN : sendChatMessageDone(i, ok)
  \/ clearChat
  \/ \E ok \in BOOLEAN : clearChatDone(ok)
  \/ loadChatHistory
  \/ \E ok \in BOOLEAN : loadChatHistoryDone(ok)

\* context selection of a chat surface: folders, folder content, checkboxes,
\* initial context
NextContext ==
  \/ \E ok \in BOOLEAN : loadFoldersDone(ok)
  \/ \E f \in FolderIds : handleFolderChange(f)
  \/ handleFolderChange("none")
  \/ handleFolderChange("")
  \/ \E f \in FolderIds, ok \in BOOLEAN : loadFolderContentDone(f, ok)
  \/ \E type \in Kinds, f \in FolderIds, checked \in BOOLEAN :
       \E id \in ContentIds(f, type) : handleContentSelection(type, id, checked)
  \/ \E ic \in InitialContexts : initialContextEffect(ic)

\* ------------------------------------------- mounting and session identity

NoSession == 0

\* endpoints a chat surface calls with its sessionId
PageEndpoints == {"history", "update-context", "message", "clear"}
BotEndpoints == {"update-context", "message", "clear"}

\* location.pathname !== '/chat'
shouldShowFAB == pathname # "/chat"

\* useState(() => `session-${Date.now()}-${Math.random()...}`): a value no
\* earlier mount of this tab has produced
FreshSessionId == minted + 1

InitSess ==
  /\ pathname = "/"
  /\ isOpen = FALSE
  /\ pageSessionId = NoSession
  /\ botSessionId = NoSession
  /\ minted = 0
  /\ chatCalls = {}

\* route change to /chat: ChatPage mounts, mints its id and its mount effect
\* requests the history; the floating chatbot is no longer rendered
navigateToChat ==
  /\ pathname # "/chat"
  /\ minted < MaxMounts
  /\ pathname' = "/chat"
  /\ pageSessionId' = FreshSessionId
  /\ minted' = minted + 1
  /\ botSessionId' = NoSession
  /\ chatCalls' = chatCalls \cup {<<"history", FreshSessionId>>}
  /\ UNCHANGED isOpen
  /\ UNCHANGED notSessVars

\* route change away from /chat: ChatPage unmounts; an open chatbot is
\* rendered again and mints its id
navigateAway ==
  /\ pathname = "/chat"
  /\ isOpen => minted < MaxMounts
  /\ pathname' = "/"
  /\ pageSessionId' = NoSession
  /\ botSessionId' = IF isOpen THEN FreshSessionId ELSE NoSession
  /\ minted' = IF isOpen THEN minted + 1 ELSE minted
  /\ UNCHANGED <<isOpen, chatCalls>>
  /\ UNCHANGED notSessVars

\* click on the floating button: ContextAwareChatbot mounts and mints its id
openChatbot ==
  /\ shouldShowFAB /\ ~isOpen
  /\ minted < MaxMounts
  /\ isOpen' = TRUE
  /\ botSessionId' = FreshSessionId
  /\ minted' = minted + 1
  /\ UNCHANGED <<pathname, pageSessionId, chatCalls>>
  /\ UNCHANGED notSessVars

\* onClose of the chatbot: it is no longer rendered
closeChatbot ==
  /\ isOpen /\ shouldShowFAB
  /\ isOpen' = FALSE
  /\ botSessionId' = NoSession
  /\ UNCHANGED <<pathname, pageSessionId, minted, chatCalls>>
  /\ UNCHANGED notSessVars

\* ChatPage calls an endpoint: { 'x-session-id': sessionId }
pageCall(endpoint) ==
  /\ pageSessionId # NoSession
  /\ endpoint \in PageEndpoints
  /\ chatCalls' = chatCalls \cup {<<endpoint, pageSessionId>>}
  /\ UNCHANGED <<pathname, isOpen, pageSessionId, botSessionId, minted>>
  /\ UNCHANGED notSessVars

\* ContextAwareChatbot calls an endpoint
botCall(endpoint) ==
  /\ botSessionId # NoSession
  /\ endpoint \in BotEndpoints
  /\ chatCalls' = chatCalls \cup {<<endpoint, botSessionId>>}
  /\ UNCHANGED <<pathname, isOpen, pageSessionId, botSessionId, minted>>
  /\ UNCHANGED notSessVars

NextSess ==
  \/ navigateToChat
  \/ navigateAway
  \/ openChatbot
  \/ closeChatbot
  \/ \E e \in PageEndpoints : pageCall(e)
  \/ \E e \in BotEndpoints : botCall(e)

\* ------------------------------------------------------------ QuizGenerator

maxQuestions == 50

DefaultQuestionCount == 15

DefaultQuestionTypes ==
  [mcq |-> TRUE, tf |-> TRUE, short |-> FALSE, long |-> FALSE]

TypeKeys == {"mcq", "tf", "short", "long"}

Difficulties == {"easy", "medium", "hard"}

\* text.split(/\r?\n/)
RECURSIVE SplitLines(_)
SplitLines(text) ==
  IF \A i \in 1..Len(text) : text[i] # "\n"
    THEN <<text>>
    ELSE LET i == CHOOSE i \in 1..Len(text) :
                    text[i] = "\n" /\ \A j \in 1..(i - 1) : text[j] # "\n"
             last == IF i > 1 /\ text[i - 1] = "\r" THEN i - 2 ELSE i - 1
         IN  <<SubSeq(text, 1, last)>>
               \o SplitLines(SubSeq(text, i + 1, Len(text)))

\* seq.map(u => u.trim())
TrimAll(lines) == [i \in 1..Len(lines) |-> Trim(lines[i])]

\* split, trim, filter(Boolean)
parseUrlsFromText(text) ==
  SelectSeq(TrimAll(SplitLines(text)), LAMBDA u : u # <<>>)

\* u.includes("://")
IncludesScheme(u) ==
  \E i \in 1..(Len(u) - 2) : u[i] = ":" /\ u[i + 1] = "/" /\ u[i + 2] = "/"

HttpPrefix == <<"h", "t", "t", "p", ":", "/", "/">>

Letters == {"a", "b", "h", "p", "t"}

\* the part of s before the first occurrence of c (all of s when there is none)
Before(s, c) ==
  IF \E i \in 1..Len(s) : s[i] = c
    THEN SubSeq(s, 1, (CHOOSE i \in 1..Len(s) :
                         s[i] = c /\ \A j \in 1..(i - 1) : s[j] # c) - 1)
    ELSE s

\* the part of s after the first occurrence of c (empty when there is none)
After(s, c) == SubSeq(s, Len(Before(s, c)) + 2, Len(s))

RECURSIVE DropSlashes(_)
DropSlashes(s) == IF s # <<>> /\ Head(s) = "/" THEN DropSlashes(Tail(s)) ELSE s

\* new URL(c) does not throw, for c over letters, space, ":" and "/":
\* a scheme of letters before the first ":"; an authority whose host has no
\* space and whose port is empty; an http URL needs a non-empty host
ConstructsUrl(c) ==
  LET scheme == Before(c, ":")
      rest == After(c, ":")
      special == scheme = <<"h", "t", "t", "p">>
      hasAuthority == Len(rest) >= 2 /\ rest[1] = "/" /\ rest[2] = "/"
      authority == IF special THEN Before(DropSlashes(rest), "/")
                   ELSE Before(SubSeq(rest, 3, Len(rest)), "/")
      host == Before(authority, ":")
      port == After(authority, ":")
  IN  /\ \E i \in 1..Len(c) : c[i] = ":"
      /\ scheme # <<>>
      /\ \A i \in 1..Len(scheme) : scheme[i] \in Letters
      /\ (special \/ hasAuthority) =>
           /\ \A i \in 1..Len(host) : host[i] # " "
           /\ port = <<>>
      /\ special => host # <<>>

validateUrl(u) == ConstructsUrl(IF IncludesScheme(u) THEN u ELSE HttpPrefix \o u)

\* Array.from(new Set(seq)): first occurrences, in order
RECURSIVE Dedupe(_)
Dedupe(seq) ==
  IF seq = <<>> THEN <<>>
  ELSE LET init == Dedupe(SubSeq(seq, 1, Len(seq) - 1))
           last == seq[Len(seq)]
       IN  IF \E i \in 1..Len(init) : init[i] = last THEN init
           ELSE Append(init, last)

\* a notification; count is the number its text shows, Null when it shows none
Toast(title, count) == [title |-> title, count |-> count]

InitGen ==
  /\ questionCount = DefaultQuestionCount
  /\ questionTypes = DefaultQuestionTypes
  /\ difficulty = "medium"
  /\ urlsText = <<>>
  /\ urlsList = <<>>
  /\ files = <<>>
  /\ loading = FALSE
  /\ genNavigated = FALSE
  /\ toasts = <<>>
  /\ genRequest = "none"

\* onChange of the textarea
setUrlsText(text) ==
  /\ ~genNavigated
  /\ urlsText' = text
  /\ UNCHANGED <<questionCount, questionTypes, difficulty, urlsList, files,
                 loading, genNavigated, toasts, genRequest>>
  /\ UNCHANGED notGenVars

\* addUrlsToList that appends without the Set
addUrlsToList_noDedupe ==
  /\ ~genNavigated
  /\ Trim(urlsText) # <<>>
  /\ LET parsed == parseUrlsFromText(urlsText)
         valid == SelectSeq(parsed, validateUrl)
         invalid == SelectSeq(parsed, LAMBDA q : ~validateUrl(q))
     IN  /\ urlsList' = urlsList \o valid
         /\ toasts' =
              (IF Len(invalid) > 0
                 THEN <<Toast("Some URLs invalid", Len(invalid))>> ELSE <<>>)
              \o (IF Len(valid) > 0
                    THEN <<Toast("URLs Added", Len(valid))>> ELSE <<>>)
  /\ urlsText' = <<>>
  /\ UNCHANGED <<questionCount, questionTypes, difficulty, files, loading,
                 genNavigated, genRequest>>
  /\ UNCHANGED notGenVars

\* the "Add URLs" button is disabled while the textarea is blank
addUrlsToList ==
  /\ ~genNavigated
  /\ Trim(urlsText) # <<>>
  /\ LET parsed == parseUrlsFromText(urlsText)
         valid == SelectSeq(parsed, validateUrl)
         invalid == SelectSeq(parsed, LAMBDA q : ~validateUrl(q))
     IN  /\ urlsList' = Dedupe(urlsList \o valid)
         /\ toasts' =
              (IF Len(invalid) > 0
                 THEN <<Toast("Some URLs invalid", Len(invalid))>> ELSE <<>>)
              \o (IF Len(valid) > 0
                    THEN <<Toast("URLs Added", Len(valid))>> ELSE <<>>)
  /\ urlsText' = <<>>
  /\ UNCHANGED <<questionCount, questionTypes, difficulty, files, loading,
                 genNavigated, genRequest>>
  /\ UNCHANGED notGenVars

\* urlsList.slice(0, 3), files.slice(0, 3): the entries shown, each with its
\* remove button
ShownEntries == 3

removeUrlAt(idx) ==
  /\ ~genNavigated
  /\ idx >= 0 /\ idx < Len(urlsList) /\ idx < ShownEntries
  /\ urlsList' = RemoveAt(urlsList, idx + 1)
  /\ UNCHANGED <<questionCount, questionTypes, difficulty, urlsText, files,
                 loading, genNavigated, toasts, genRequest>>
  /\ UNCHANGED notGenVars

\* f.name.toLowerCase()
ToLowerCase(str) ==
  [i \in 1..Len(str) |->
     IF str[i] = "P" THEN "p"
     ELSE IF str[i] = "D" THEN "d"
     ELSE IF str[i] = "F" THEN "f"
     ELSE str[i]]

\* str.endsWith(suffix)
EndsWith(str, suffix) ==
  /\ Len(str) >= Len(suffix)
  /\ SubSeq(str, Len(str) - Len(suffix) + 1, Len(str)) = suffix

\* f.type === "application/pdf" || f.name.toLowerCase().endsWith(".pdf")
IsPdf(f) ==
  \/ f.type = "application/pdf"
  \/ EndsWith(ToLowerCase(f.name), <<".", "p", "d", "f">>)

\* onChange of the file input; chosen is the sequence of picked files
onFilesSelected(chosen) ==
  /\ ~genNavigated
  /\ LET pdfs == SelectSeq(chosen, IsPdf)
     IN  /\ Len(files) + Len(pdfs) <= MaxFiles
         /\ files' = files \o pdfs
         /\ toasts' =
              (IF Len(pdfs) < Len(chosen)
                 THEN <<Toast("Only PDFs allowed", Null)>> ELSE <<>>)
              \o (IF Len(pdfs) > 0
                    THEN <<Toast("Files Added", Len(pdfs))>> ELSE <<>>)
  /\ UNCHANGED <<questionCount, questionTypes, difficulty, urlsText, urlsList,
                 loading, genNavigated, genRequest>>
  /\ UNCHANGED notGenVars

removeFileAt(idx) ==
  /\ ~genNavigated
  /\ idx >= 0 /\ idx < Len(files) /\ idx < ShownEntries
  /\ files' = RemoveAt(files, idx + 1)
  /\ UNCHANGED <<questionCount, questionTypes, difficulty, urlsText, urlsList,
                 loading, genNavigated, toasts, genRequest>>
  /\ UNCHANGED notGenVars

DigitChars == <<"0", "1", "2", "3", "4", "5", "6", "7", "8", "9">>

IsDigit(c) == \E d \in 1..10 : DigitChars[d] = c

DigitValue(c) == (CHOOSE d \in 1..10 : DigitChars[d] = c) - 1

\* value of the longest prefix of digits
RECURSIVE DigitsValue(_, _)
DigitsValue(str, acc) ==
  IF str # <<>> /\ IsDigit(Head(str))
    THEN DigitsValue(Tail(str), acc * 10 + DigitValue(Head(str)))
    ELSE acc

\* parseInt(text): <<>> for NaN, else <<integer>>
ParseInt(text) ==
  LET t == TrimLeft(text)
      negative == t # <<>> /\ Head(t) = "-"
      digits == IF t # <<>> /\ (Head(t) = "-" \/ Head(t) = "+") THEN Tail(t) ELSE t
  IN  IF digits = <<>> \/ ~IsDigit(Head(digits)) THEN <<>>
      ELSE <<(IF negative THEN -1 ELSE 1) * DigitsValue(digits, 0)>>

Min(a, b) == IF a <= b THEN a ELSE b

Max(a, b) == IF a >= b THEN a ELSE b

\* onQuestionCountChange without Math.min
onQuestionCountChange_noUpperClamp(text) ==
  /\ ~genNavigated
  /\ LET parsed == ParseInt(text)
         orOne == IF parsed = <<>> \/ parsed = <<0>> THEN 1 ELSE parsed[1]
     IN  questionCount' = Max(1, orOne)
  /\ UNCHANGED <<questionTypes, difficulty, urlsText, urlsList, files, loading,
                 genNavigated, toasts, genRequest>>
  /\ UNCHANGED notGenVars

\* onChange of the number input:
\* Math.min(maxQuestions, Math.max(1, parseInt(e.target.value) || 1))
onQuestionCountChange(text) ==
  /\ ~genNavigated
  /\ LET parsed == ParseInt(text)
         orOne == IF parsed = <<>> \/ parsed = <<0>> THEN 1 ELSE parsed[1]
     IN  questionCount' = Min(maxQuestions, Max(1, orOne))
  /\ UNCHANGED <<questionTypes, difficulty, urlsText, urlsList, files, loading,
                 genNavigated, toasts, genRequest>>
  /\ UNCHANGED notGenVars

\* a click on the checkbox of a question type delivers the negation of its state
onTypeCheckedChange(key, checked) ==
  /\ ~genNavigated
  /\ checked = ~questionTypes[key]
  /\ questionTypes' = [questionTypes EXCEPT ![key] = checked]
  /\ UNCHANGED <<questionCount, difficulty, urlsText, urlsList, files, loading,
                 genNavigated, toasts, genRequest>>
  /\ UNCHANGED notGenVars

setDifficulty(value) ==
  /\ ~genNavigated
  /\ difficulty' = value
  /\ UNCHANGED <<questionCount, questionTypes, urlsText, urlsList, files,
                 loading, genNavigated, toasts, genRequest>>
  /\ UNCHANGED notGenVars

\* the "Clear" button
resetForm ==
  /\ ~genNavigated
  /\ urlsList' = <<>>
  /\ files' = <<>>
  /\ urlsText' = <<>>
  /\ questionCount' = DefaultQuestionCount
  /\ questionTypes' = DefaultQuestionTypes
  /\ difficulty' = "medium"
  /\ toasts' = <<Toast("Form cleared", Null)>>
  /\ UNCHANGED <<loading, genNavigated, genRequest>>
  /\ UNCHANGED notGenVars

hasContent == Len(urlsList) > 0 \/ Len(files) > 0

hasQuestionTypes == \E k \in TypeKeys : questionTypes[k]

canGenerate == hasContent /\ hasQuestionTypes /\ ~loading

\* Object.keys(questionTypes).filter(k => questionTypes[k])
selectedTypes == {k \in TypeKeys : questionTypes[k]}

\* handleGenerateQuiz without the test of the selected types
handleGenerateQuiz_noTypeCheck ==
  /\ ~genNavigated
  /\ ~loading
  /\ IF Len(urlsList) = 0 /\ Len(files) = 0
       THEN /\ toasts' = <<Toast("Add content", Null)>>
            /\ UNCHANGED <<loading, genRequest>>
       ELSE /\ loading' = TRUE
            /\ genRequest' = IF Len(files) > 0 THEN "pdfs" ELSE "links"
            /\ UNCHANGED toasts
  /\ UNCHANGED <<questionCount, questionTypes, difficulty, urlsText, urlsList,
                 files, genNavigated>>
  /\ UNCHANGED notGenVars

\* handleGenerateQuiz up to its await; it is not entered while a generation
\* is loading
handleGenerateQuiz ==
  /\ ~genNavigated
  /\ ~loading
  /\ IF Len(urlsList) = 0 /\ Len(files) = 0
       THEN /\ toasts' = <<Toast("Add content", Null)>>
            /\ UNCHANGED <<loading, genRequest>>
       ELSE IF selectedTypes = {}
         THEN /\ toasts' = <<Toast("Select question types", Null)>>
              /\ loading' = FALSE
              /\ UNCHANGED genRequest
         ELSE /\ loading' = TRUE
              /\ genRequest' = IF Len(files) > 0 THEN "pdfs" ELSE "links"
              /\ UNCHANGED toasts
  /\ UNCHANGED <<questionCount, questionTypes, difficulty, urlsText, urlsList,
                 files, genNavigated>>
  /\ UNCHANGED notGenVars

\* responses of the generation endpoint: with a test id, without one, failure
GenerateOutcomes == {"id", "noId", "error"}

\* generateDone that clears the form in the finally block
generateDone_clearsAlways(outcome) ==
  /\ genRequest # "none"
  /\ genRequest' = "none"
  /\ loading' = FALSE
  /\ urlsList' = <<>>
  /\ files' = <<>>
  /\ urlsText' = <<>>
  /\ IF outcome = "id"
       THEN /\ toasts' = <<Toast("Quiz Generated!", Null)>>
            /\ genNavigated' = TRUE
       ELSE /\ toasts' = <<Toast("Generation failed", Null)>>
            /\ UNCHANGED genNavigated
  /\ UNCHANGED <<questionCount, questionTypes, difficulty>>
  /\ UNCHANGED notGenVars

\* handleGenerateQuiz after its await
generateDone(outcome) ==
  /\ genRequest # "none"
  /\ genRequest' = "none"
  /\ loading' = FALSE
  /\ IF outcome = "id"
       THEN /\ toasts' = <<Toast("Quiz Generated!", Null)>>
            /\ urlsList' = <<>>
            /\ files' = <<>>
            /\ urlsText' = <<>>
            /\ genNavigated' = TRUE
       ELSE /\ toasts' = <<Toast("Generation failed", Null)>>
            /\ UNCHANGED <<urlsList, files, urlsText, genNavigated>>
  /\ UNCHANGED <<questionCount, questionTypes, difficulty>>
  /\ UNCHANGED notGenVars

\* textarea contents: padded lines and a blank line; an invalid line and a
\* valid one twice; scheme-less "://", a blank line; CRLF and a custom scheme
UrlTexts ==
  { <<" ", "a", " ", "\n", "\n", "b">>,
    <<"a", " ", "b", "\n", "a", "\n", "a">>,
    <<":", "/", "/", "a", "\n", " ", "\n">>,
    <<"b", "\r", "\n", "a", ":", "/", "/", "b">>,
    <<" ", "\n">> }

\* files a picker can deliver: PDF by mime type, PDF by extension only,
\* text file, a name that merely ends in "pdf"
FileChoices ==
  { [name |-> <<"a">>, type |-> "application/pdf"],
    [name |-> <<"a", ".", "P", "D", "F">>, type |-> ""],
    [name |-> <<"a", ".", "t", "x", "t">>, type |-> "text/plain"],
    [name |-> <<"p", "d", "f">>, type |-> ""] }

Selections == UNION {[1..n -> FileChoices] : n \in 1..MaxChosen}

\* values the number input delivers: empty (also for text that is no number),
\* zero, in range, above 50, negative, fractional, far above 50
CountTexts ==
  { <<>>, <<"0">>, <<"7">>, <<"5", "1">>, <<"-", "3">>, <<"7", ".", "5">>,
    <<"9", "9", "9">> }

\* URL and file intake
NextIntake ==
  \/ \E text \in UrlTexts : setUrlsText(text)
  \/ addUrlsToList
  \/ \E i \in 0..ShownEntries : removeUrlAt(i)
  \/ \E chosen \in Selections : onFilesSelected(chosen)
  \/ \E i \in 0..ShownEntries : removeFileAt(i)

\* a PDF picked in the file input
PdfFile == [name |-> <<"a">>, type |-> "application/pdf"]

\* parameters and generation, over one URL text and one PDF
NextGen ==
  \/ setUrlsText(<<"a">>)
  \/ addUrlsToList
  \/ \E i \in 0..ShownEntries : removeUrlAt(i)
  \/ onFilesSelected(<<PdfFile>>)
  \/ onQuestionCountChange(<<"7">>)
  \/ onQuestionCountChange(<<"5", "1">>)
  \/ \E k \in TypeKeys, c \in BOOLEAN : onTypeCheckedChange(k, c)
  \/ \E d \in Difficulties : setDifficulty(d)
  \/ resetForm
  \/ handleGenerateQuiz
  \/ \E o \in GenerateOutcomes : generateDone(o)

\* generation parameters
NextParams ==
  \/ \E text \in CountTexts : onQuestionCountChange(text)
  \/ \E k \in TypeKeys, c \in BOOLEAN : onTypeCheckedChange(k, c)
  \/ \E d \in Difficulties : setDifficulty(d)
  \/ resetForm

\* -------------------------------------------------------------- QuizResults

\* a user_score the server already holds for an open-ended question
PriorScore == 50

\* question results: objective answered right or wrong, open-ended without
\* and with a prior score; a missing user_score is 0, as `||` reads it
ResultQuestions ==
  { [type |-> "mcq", correct |-> TRUE, user_score |-> 0],
    [type |-> "mcq", correct |-> FALSE, user_score |-> 0],
    [type |-> "short_answer", correct |-> FALSE, user_score |-> 0],
    [type |-> "short_answer", correct |-> FALSE, user_score |-> PriorScore] }

Submissions == UNION {[1..n -> ResultQuestions] : n \in 1..MaxResultQuestions}

\* values the slider (0..100, step 5) delivers
ScoreValues == {0, 80}

ResultIndices == 0..(Len(submission) - 1)

\* questions_with_answers[index]
QuestionAt(index) == submission[index + 1]

\* q.type === 'mcq' || q.type === 'true_false'
IsObjective(q) == q.type = "mcq" \/ q.type = "true_false"

\* a || b on numbers, undefined read as 0
OrElse(a, b) == IF a # 0 THEN a ELSE b

\* selfScores[index], 0 for undefined
Buffered(index) == IF index \in DOMAIN selfScores THEN selfScores[index] ELSE 0

\* statistics: q.user_score || selfScores[index] || 0
StatScore(index) ==
  OrElse(OrElse(QuestionAt(index).user_score, Buffered(index)), 0)

\* slider and label: selfScores[index] || question.user_score || 0
SliderValue(index) ==
  OrElse(OrElse(Buffered(index), QuestionAt(index).user_score), 0)

\* what the forEach of statistics adds to totalScore for one question
ScoreAdded(index) ==
  IF IsObjective(QuestionAt(index))
    THEN (IF QuestionAt(index).correct THEN 100 ELSE 0)
    ELSE StatScore(index)

\* whether the forEach of statistics counts the question in scoredQuestions
IsScored(index) == IsObjective(QuestionAt(index)) \/ StatScore(index) > 0

RECURSIVE TotalScore(_)
TotalScore(n) == IF n = 0 THEN 0 ELSE TotalScore(n - 1) + ScoreAdded(n - 1)

\* statistics; averageScore is totalScore / scoredQuestions (0 when none)
statistics ==
  [ totalQuestions |-> Len(submission),
    correctAnswers |-> Cardinality({i \in ResultIndices :
                         IsObjective(QuestionAt(i)) /\ QuestionAt(i).correct}),
    totalScore |-> TotalScore(Len(submission)),
    scoredQuestions |-> Cardinality({i \in ResultIndices : IsScored(i)}) ]

\* !!explanations[index]
HasExplanation(index) ==
  index \in DOMAIN explanations /\ explanations[index] # ""

InitRes ==
  /\ resStatus = "loading"
  /\ submission = <<>>
  /\ selfScores = [k \in {} |-> 0]
  /\ openQuestions = {}
  /\ explanationLoading = {}
  /\ explanations = [k \in {} |-> ""]
  /\ explInFlight = [i \in 0..(MaxResultQuestions - 1) |-> 0]
  /\ savePending = FALSE
  /\ sentScores = <<>>
  /\ resToast = ""

\* the submission arrives (from the router state or from the query)
LoadResults(sub) ==
  /\ resStatus = "loading"
  /\ resStatus' = "loaded"
  /\ submission' = sub
  /\ UNCHANGED <<selfScores, openQuestions, explanationLoading, explanations,
                 explInFlight, savePending, sentScores,
                 resToast>>
  /\ UNCHANGED notResVars

LoadResultsFail ==
  /\ resStatus = "loading"
  /\ resStatus' = "error"
  /\ UNCHANGED <<submission, selfScores, openQuestions, explanationLoading,
                 explanations, explInFlight, savePending,
                 sentScores, resToast>>
  /\ UNCHANGED notResVars

\* click on the trigger of a question's collapsible
toggleQuestion(index) ==
  /\ resStatus = "loaded"
  /\ index \in ResultIndices
  /\ openQuestions' = IF index \in openQuestions
                        THEN openQuestions \ {index}
                        ELSE openQuestions \cup {index}
  /\ UNCHANGED <<resStatus, submission, selfScores, explanationLoading,
                 explanations, explInFlight, savePending,
                 sentScores, resToast>>
  /\ UNCHANGED notResVars

\* onValueChange of the slider of an open-ended question
handleScoreChange(questionIndex, score) ==
  /\ resStatus = "loaded"
  /\ questionIndex \in openQuestions
  /\ ~IsObjective(QuestionAt(questionIndex))
  /\ selfScores' = SetKey(selfScores, questionIndex, score)
  /\ UNCHANGED <<resStatus, submission, openQuestions, explanationLoading,
                 explanations, explInFlight, savePending,
                 sentScores, resToast>>
  /\ UNCHANGED notResVars

\* Save Scores: the button is disabled while the mutation is pending; the
\* request body is { scores: selfScores }
saveScores_noEmptyTest ==
  /\ resStatus = "loaded"
  /\ ~savePending
  /\ savePending' = TRUE
  /\ sentScores' = <<selfScores>>
  /\ UNCHANGED <<selfScores, resToast>>
  /\ UNCHANGED <<resStatus, submission, openQuestions, explanationLoading,
                 explanations, explInFlight>>
  /\ UNCHANGED notResVars

saveScores ==
  /\ resStatus = "loaded"
  /\ ~savePending
  /\ IF DOMAIN selfScores = {}
       THEN /\ resToast' = "No scores to save"
            /\ UNCHANGED <<selfScores, savePending, sentScores>>
       ELSE /\ savePending' = TRUE
            /\ sentScores' = <<selfScores>>
            /\ UNCHANGED <<selfScores, resToast>>
  /\ UNCHANGED <<resStatus, submission, openQuestions, explanationLoading,
                 explanations, explInFlight>>
  /\ UNCHANGED notResVars

\* onSuccess / onError of updateScoresMutation
saveScoresDone(ok) ==
  /\ savePending
  /\ savePending' = FALSE
  /\ resToast' = IF ok THEN "Self-assessment scores updated successfully!"
                       ELSE "Error updating scores"
  /\ UNCHANGED <<resStatus, submission, selfScores, openQuestions,
                 explanationLoading, explanations, explInFlight, sentScores>>
  /\ UNCHANGED notResVars

\* the Get AI Explanation button: disabled={explanationLoading[index] ||
\* !!explanations[index]}
CanExplain_ignoresLoading(index) == ~HasExplanation(index)

CanExplain(index) ==
  /\ index \notin explanationLoading
  /\ ~HasExplanation(index)

getExplanation(index) ==
  /\ resStatus = "loaded"
  /\ index \in openQuestions
  /\ CanExplain(index)
  /\ explInFlight[index] < MaxExplains
  /\ IF HasExplanation(index)
       THEN UNCHANGED <<explanationLoading, explInFlight>>
       ELSE /\ explanationLoading' = explanationLoading \cup {index}
            /\ explInFlight' = [explInFlight EXCEPT ![index] = @ + 1]
  /\ UNCHANGED <<resStatus, submission, selfScores, openQuestions,
                 explanations, savePending, sentScores, resToast>>
  /\ UNCHANGED notResVars

\* what an explanation request comes back with: a text, a body without an
\* explanation, or a failure
ExplanationOutcomes == {"text", "", "error"}

\* onSuccess / onError of getExplanationMutation for one request
getExplanationDone(index, outcome) ==
  /\ explInFlight[index] > 0
  /\ explInFlight' = [explInFlight EXCEPT ![index] = @ - 1]
  /\ explanationLoading' = explanationLoading \ {index}
  /\ IF outcome = "error"
       THEN /\ resToast' = "Error getting explanation"
            /\ UNCHANGED explanations
       ELSE /\ explanations' = SetKey(explanations, index, outcome)
            /\ UNCHANGED resToast
  /\ UNCHANGED <<resStatus, submission, selfScores, openQuestions, savePending, sentScores>>
  /\ UNCHANGED notResVars

\* self-assessment on the results page
NextScores ==
  \/ \E sub \in Submissions : LoadResults(sub)
  \/ LoadResultsFail
  \/ \E index \in 0..(MaxResultQuestions - 1) : toggleQuestion(index)
  \/ \E index \in 0..(MaxResultQuestions - 1), score \in ScoreValues :
       handleScoreChange(index, score)
  \/ saveScores
  \/ \E ok \in BOOLEAN : saveScoresDone(ok)

\* explanations on the results page
NextExplain ==
  \/ \E sub \in Submissions : LoadResults(sub)
  \/ \E index \in 0..(MaxResultQuestions - 1) : toggleQuestion(index)
  \/ \E index \in 0..(MaxResultQuestions - 1) : getExplanation(index)
  \/ \E index \in 0..(MaxResultQuestions - 1), outcome \in ExplanationOutcomes :
       getExplanationDone(index, outcome)

\* -------------------------------------------------------- FolderDetailsPage

\* link ids of the folder when the page is opened
FolderLinks == <<"l1", "l2">>

LinkIds == {FolderLinks[i] : i \in DOMAIN FolderLinks}

NoPayload == [link_ids |-> <<>>, question_types |-> {}, test_type |-> "none"]

TestTypes == {"normal", "comprehensive"}

\* k === 'tf' ? 'true_false' : k === 'short' ? 'short_answer' : ...
ApiQuestionType(k) ==
  CASE k = "tf" -> "true_false"
    [] k = "short" -> "short_answer"
    [] k = "long" -> "long_answer"
    [] OTHER -> k

\* question_types of submitGen
question_types == {ApiQuestionType(k) : k \in {t \in TypeKeys : qTypes[t]}}

InitFd ==
  /\ serverLinks = FolderLinks
  /\ links = <<>>
  /\ linksFetching = TRUE
  /\ selected = <<>>
  /\ selectAll = FALSE
  /\ showGenModal = FALSE
  /\ testType = "normal"
  /\ qTypes = [mcq |-> TRUE, tf |-> TRUE, short |-> FALSE, long |-> FALSE]
  /\ delPending = ""
  /\ genPending = FALSE
  /\ genPayload = NoPayload
  /\ fdToast = ""

\* the folder-links query (first fetch, or refetch after invalidateQueries)
\* is answered
folderLinksDone ==
  /\ linksFetching
  /\ linksFetching' = FALSE
  /\ links' = serverLinks
  /\ UNCHANGED <<serverLinks, selected, selectAll, showGenModal, testType,
                 qTypes, delPending, genPending, genPayload, fdToast>>
  /\ UNCHANGED notFdVars

\* checkbox of a row; the rows lie under the dialog while it is shown
toggle(id) ==
  /\ ~showGenModal
  /\ Includes(links, id)
  /\ selected' = IF Includes(selected, id) THEN Without(selected, id)
                                           ELSE Append(selected, id)
  /\ UNCHANGED <<serverLinks, links, linksFetching, selectAll, showGenModal,
                 testType, qTypes, delPending, genPending, genPayload, fdToast>>
  /\ UNCHANGED notFdVars

\* checkbox of the table header
onSelectAll ==
  /\ ~showGenModal
  /\ IF Len(links) = 0
       THEN UNCHANGED <<selected, selectAll>>
       ELSE IF selectAll
              THEN selected' = <<>> /\ selectAll' = FALSE
              ELSE selected' = links /\ selectAll' = TRUE
  /\ UNCHANGED <<serverLinks, links, linksFetching, showGenModal, testType,
                 qTypes, delPending, genPending, genPayload, fdToast>>
  /\ UNCHANGED notFdVars

\* delete button of a row: delLinkMut.mutate(item.link_id)
deleteLink(id) ==
  /\ ~showGenModal
  /\ Includes(links, id)
  /\ delPending = ""
  /\ delPending' = id
  /\ UNCHANGED <<serverLinks, links, linksFetching, selected, selectAll,
                 showGenModal, testType, qTypes, genPending, genPayload,
                 fdToast>>
  /\ UNCHANGED notFdVars

\* onSuccess / onError of delLinkMut
deleteLinkDone(ok) ==
  /\ delPending # ""
  /\ delPending' = ""
  /\ IF ok
       THEN /\ serverLinks' = Without(serverLinks, delPending)
            /\ linksFetching' = TRUE
            /\ fdToast' = "Link deleted successfully"
       ELSE /\ fdToast' = "Error deleting link"
            /\ UNCHANGED <<serverLinks, linksFetching>>
  /\ UNCHANGED <<links, selected, selectAll, showGenModal, testType, qTypes,
                 genPending, genPayload>>
  /\ UNCHANGED notFdVars

\* Generate Quiz button
openGenModal ==
  /\ ~showGenModal
  /\ ~genPending
  /\ IF testType = "normal" /\ Len(selected) = 0
       THEN fdToast' = "Select content first" /\ UNCHANGED showGenModal
       ELSE showGenModal' = TRUE /\ UNCHANGED fdToast
  /\ UNCHANGED <<serverLinks, links, linksFetching, selected, selectAll,
                 testType, qTypes, delPending, genPending, genPayload>>
  /\ UNCHANGED notFdVars

\* X and Cancel of the dialog
closeGenModal ==
  /\ showGenModal
  /\ showGenModal' = FALSE
  /\ UNCHANGED <<serverLinks, links, linksFetching, selected, selectAll,
                 testType, qTypes, delPending, genPending, genPayload, fdToast>>
  /\ UNCHANGED notFdVars

\* Test Type select of the dialog
setTestType(value) ==
  /\ showGenModal
  /\ testType' = value
  /\ UNCHANGED <<serverLinks, links, linksFetching, selected, selectAll,
                 showGenModal, qTypes, delPending, genPending, genPayload,
                 fdToast>>
  /\ UNCHANGED notFdVars

\* Question Types checkboxes of the dialog
setQTypes(key, checked) ==
  /\ showGenModal
  /\ qTypes' = [qTypes EXCEPT ![key] = checked]
  /\ UNCHANGED <<serverLinks, links, linksFetching, selected, selectAll,
                 showGenModal, testType, delPending, genPending, genPayload,
                 fdToast>>
  /\ UNCHANGED notFdVars

\* Generate & Start Quiz button of the dialog
submitGen ==
  /\ showGenModal
  /\ ~genPending
  /\ IF question_types = {}
       THEN /\ fdToast' = "Select question types"
            /\ UNCHANGED <<genPending, genPayload>>
       ELSE /\ genPending' = TRUE
            /\ genPayload' =
                 [link_ids |-> IF testType = "comprehensive" THEN <<>>
                                                               ELSE selected,
                  question_types |-> question_types,
                  test_type |-> testType]
            /\ UNCHANGED fdToast
  /\ UNCHANGED <<serverLinks, links, linksFetching, selected, selectAll,
                 showGenModal, testType, qTypes, delPending>>
  /\ UNCHANGED notFdVars

\* onSuccess / onError of genTestMut; the navigation to the quiz that follows
\* a success one second later is not part of the model
genTestDone(ok) ==
  /\ genPending
  /\ genPending' = FALSE
  /\ IF ok
       THEN /\ showGenModal' = FALSE
            /\ fdToast' = "Quiz generated successfully!"
       ELSE /\ fdToast' = "Error generating quiz"
            /\ UNCHANGED showGenModal
  /\ UNCHANGED <<serverLinks, links, linksFetching, selected, selectAll,
                 testType, qTypes, delPending, genPayload>>
  /\ UNCHANGED notFdVars

\* selection and quiz generation on the folder page
NextFolder ==
  \/ folderLinksDone
  \/ \E id \in LinkIds : toggle(id)
  \/ onSelectAll
  \/ \E id \in LinkIds : deleteLink(id)
  \/ \E ok \in BOOLEAN : deleteLinkDone(ok)
  \/ openGenModal
  \/ closeGenModal
  \/ \E value \in TestTypes : setTestType(value)
  \/ \E checked \in BOOLEAN : setQTypes("mcq", checked)
  \/ \E checked \in BOOLEAN : setQTypes("tf", checked)
  \/ submitGen
  \/ \E ok \in BOOLEAN : genTestDone(ok)

\* --------------------------------------------------------------- useChatbot

\* delay of the timeout set by closeChatbot
CloseDelayMs == 300

\* the model's clock advances by a third of the delay
ClockStepMs == CloseDelayMs \div 3

\* contexts handed to openChatbot and updateContext, by their folder id
HookContexts == FolderIds

InitHook ==
  /\ hookIsOpen = FALSE
  /\ initialContext = Undefined
  /\ closeTimers = <<>>

\* openChatbot(context?): Undefined stands for a call without context
hookOpenChatbot(ctx) ==
  /\ initialContext' = IF ctx # Undefined THEN ctx ELSE initialContext
  /\ hookIsOpen' = TRUE
  /\ closeTimers' = [i \in DOMAIN closeTimers |->
                       [closeTimers[i] EXCEPT !.reopened = TRUE]]
  /\ UNCHANGED notHookVars

\* closeChatbot of the latest render: its callback closes over that render's
\* isOpen (useCallback deps [isOpen])
hookCloseChatbot ==
  /\ Len(closeTimers) < MaxTimers
  /\ hookIsOpen' = FALSE
  /\ closeTimers' = Append(closeTimers,
                           [isOpen |-> hookIsOpen, left |-> CloseDelayMs,
                            reopened |-> FALSE])
  /\ UNCHANGED initialContext
  /\ UNCHANGED notHookVars

\* time passes while no pending timeout is due
clockStep ==
  /\ closeTimers # <<>>
  /\ \A i \in DOMAIN closeTimers : closeTimers[i].left > 0
  /\ closeTimers' = [i \in DOMAIN closeTimers |->
                       [closeTimers[i] EXCEPT !.left = @ - ClockStepMs]]
  /\ UNCHANGED <<hookIsOpen, initialContext>>
  /\ UNCHANGED notHookVars

\* the oldest timeout fires: if (!isOpen) setInitialContext(undefined)
closeTimeout ==
  /\ closeTimers # <<>>
  /\ Head(closeTimers).left = 0
  /\ initialContext' = IF ~Head(closeTimers).isOpen THEN Undefined
                                                    ELSE initialContext
  /\ closeTimers' = Tail(closeTimers)
  /\ UNCHANGED hookIsOpen
  /\ UNCHANGED notHookVars

\* updateContext(context)
updateContext(ctx) ==
  /\ initialContext' = ctx
  /\ UNCHANGED <<hookIsOpen, closeTimers>>
  /\ UNCHANGED notHookVars

NextHook ==
  \/ \E ctx \in HookContexts \cup {Undefined} : hookOpenChatbot(ctx)
  \/ hookCloseChatbot
  \/ clockStep
  \/ closeTimeout
  \/ \E ctx \in HookContexts : updateContext(ctx)

Init == InitQuiz /\ InitMulti /\ InitChat /\ InitSess /\ InitGen /\ InitRes
          /\ InitFd /\ InitHook

SpecQuiz == Init /\ [][NextQuiz]_vars

SpecChat == Init /\ [][NextChat]_vars

SpecContext == Init /\ [][NextContext]_vars

SpecAnswers == Init /\ [][NextAnswers]_vars

SpecSess == Init /\ [][NextSess]_vars

SpecIntake == Init /\ [][NextIntake]_vars

SpecGen == Init /\ [][NextGen]_vars

SpecParams == Init /\ [][NextParams]_vars

SpecScores == Init /\ [][NextScores]_vars

SpecExplain == Init /\ [][NextExplain]_vars

SpecFolder == Init /\ [][NextFolder]_vars

SpecHook == Init /\ [][NextHook]_vars

\* ------------------------------------------------------- TakeQuiz: claims

\* submission requests not yet answered
SubmitsInFlight == olderInFlight + (IF isPending THEN 1 ELSE 0)

\* C2: while one submission request is in flight, no second submission
\* request is issued for the same attempt: at most one is ever unanswered.
C2_NoDoubleSubmission == SubmitsInFlight <= 1

\* C3: with estimated_time = m >= 1 and no manual interaction, the countdown
\* is m*60 minus the ticks so far, no request is issued before the m*60-th
\* tick, and at the m*60-th tick the countdown is zero and exactly one
\* request, the timer's, has been issued; no further tick follows.
C3_AutoSubmitExactlyOnce ==
  (qStatus = "loaded" /\ testData.estimated_time >= 1 /\ ~manualTouched) =>
    LET total == testData.estimated_time * SecondsPerMinute IN
      /\ tickCount <= total
      /\ timeRemaining = total - tickCount
      /\ submitCount = autoCount
      /\ tickCount < total => submitCount = 0
      /\ tickCount = total => submitCount = 1

C3_Witness ==
  /\ qStatus = "loaded"
  /\ testData.estimated_time >= 1
  /\ ~manualTouched
  /\ tickCount = testData.estimated_time * SecondsPerMinute
  /\ timeRemaining = 0
  /\ autoCount = 1

\* C4: every submission request, manual or timer-triggered, carries exactly
\* the answer map the quiz holds at the moment the request is triggered.
C4_PayloadIsCurrentAnswers ==
  [][submitCount' > submitCount => lastPayload' = <<answers>>]_vars

\* C5: the quiz becomes submitted only in the step that handles a successful
\* response; the step that handles a failed response leaves isSubmitted, the
\* answer map, the flagged set and the cursor unchanged and the quiz on
\* screen, and once the observed request has failed the submit controls are
\* enabled again (the header button, and the dialog button if the dialog is
\* open).
C5_SubmittedOnlyOnSuccess ==
  /\ [][(isSubmitted' /\ ~isSubmitted) =>
          (SubmitResponse(TRUE) \/ OlderSubmitResponse(TRUE))]_vars
  /\ [][(SubmitResponse(FALSE) \/ OlderSubmitResponse(FALSE)) =>
          /\ UNCHANGED <<isSubmitted, navigated, answers, flaggedQuestions,
                         currentQuestion>>
          /\ (SubmitResponse(FALSE) =>
                /\ ~isPending'
                /\ (Rendered /\ showSubmitConfirm) => CanConfirmSubmit')]_vars

C5_Witness ==
  /\ mutStatus = "error"
  /\ ~isSubmitted
  /\ CanConfirmSubmit
  /\ manualCount = 1
  /\ lastPayload = <<answers>>
  /\ DOMAIN answers # {}
  /\ flaggedQuestions # {}

\* --------------------------------------------------- chat surfaces: claims

MessagesInFlight == {i \in DOMAIN sends : sends[i].pc = "msg"}

\* C6: a sendMessage call with blank input or with a send in flight sends
\* nothing and leaves the message list, the input and the loading flag as
\* they are; at most one send, hence at most one chat-message request, is in
\* flight at any time.
C6_SendGuard ==
  /\ [](Len(sends) <= 1 /\ Cardinality(MessagesInFlight) <= 1)
  /\ [][(sendMessage /\ (Trim(inputMessage) = <<>> \/ isLoading)) =>
          UNCHANGED <<messages, inputMessage, isLoading, sends, sendsStarted,
                      pushRequests, msgRequests>>]_vars

C6_Witness ==
  /\ lastOp = <<"sendMessage", "noop">>
  /\ isLoading
  /\ MessagesInFlight # {}
  /\ messages # <<>>

\* C7: every send that passed the guard issued a context push first, and the
\* chat-message requests issued are exactly the pushes answered, with success
\* or with failure: a failed push is followed by the message request.
C7_PushThenMessage ==
  /\ pushRequests = sendsStarted
  /\ msgRequests = pushOk + pushFail
  /\ \A i \in DOMAIN sends :
       sends[i].pc = "push" => msgRequests < pushRequests

C7_Witness ==
  /\ lastOp = <<"updateChatContext", "fail">>
  /\ pushFail >= 1
  /\ MessagesInFlight # {}

\* C8: right after a successful send the list ends with the assistant's reply
\* and holds a user message before it; right after a failed send the list
\* ends with the synthetic error message; in both cases isLoading is false.
C8_SendOutcome ==
  /\ lastOp = <<"sendChatMessage", "ok">> =>
       /\ messages # <<>>
       /\ messages[Len(messages)] = AiMsg(ReplyText)
       /\ \E i \in 1..(Len(messages) - 1) : messages[i].type = "user"
  /\ lastOp = <<"sendChatMessage", "fail">> =>
       /\ messages # <<>>
       /\ messages[Len(messages)] = AiMsg(ErrorText)
  /\ lastOp[1] = "sendChatMessage" => ~isLoading

\* C9: right after handleFolderChange(f) the three selected-id lists are
\* empty; for a folder id f the context and the selection reference f; for
\* the "General Assistance" value no folder id remains in the context and no
\* folder is selected.
C9_SelectFolderResets ==
  lastOp[1] = "handleFolderChange" =>
    /\ context.selected_link_ids = <<>>
    /\ context.selected_test_ids = <<>>
    /\ context.selected_submission_ids = <<>>
    /\ lastOp[2] \in FolderIds =>
         (context.folder_id = lastOp[2] /\ selectedFolder = lastOp[2])
    /\ lastOp[2] \notin FolderIds =>
         (context.folder_id \notin FolderIds /\ selectedFolder \notin FolderIds)

C9_Witness ==
  /\ lastOp = <<"handleFolderChange", "B">>
  /\ folderContent = "A"
  /\ context.folder_id = "B"

\* C10: every id in the selected link/test/submission lists of the context
\* belongs to the content of the folder the context references.
C10_SelectedIdsBelongToFolder ==
  \A type \in Kinds :
    \A i \in DOMAIN context[KeyOf(type)] :
      /\ context.folder_id \in FolderIds
      /\ context[KeyOf(type)][i] \in ContentIds(context.folder_id, type)

\* --------------------------------------------- session identity: claims

\* C11: all chat calls issued in the tab, from either surface and across
\* closing, reopening and remounting, carry one and the same x-session-id.
C11_OneSessionIdPerTab == \A c, d \in chatCalls : c[2] = d[2]

\* ------------------------------------------- TakeQuiz answering: claims

\* a test of at least one question is loaded
LoadedNonEmpty == qStatus = "loaded" /\ testData.n >= 1

ValidIndices == 0..(testData.n - 1)

\* C12: with a loaded test of n >= 1 questions the cursor is in [0, n) and
\* every key of the answer map is in [0, n); goToQuestion with an index
\* outside [0, n) leaves cursor, answers and flags as they were.
C12_CursorAndKeysInRange ==
  /\ [](LoadedNonEmpty =>
          /\ currentQuestion \in ValidIndices
          /\ DOMAIN answers \subseteq ValidIndices)
  /\ [][\A i \in -1..MaxQuestions :
          (goToQuestion(i) /\ i \notin ValidIndices) =>
            UNCHANGED <<currentQuestion, answers, flaggedQuestions,
                        showSubmitConfirm, timeRemaining, isSubmitted>>]_vars

C12_Witness ==
  /\ LoadedNonEmpty
  /\ testData.n = 2
  /\ currentQuestion = 1
  /\ DOMAIN answers = 0..1

\* C13: a submitted answer map has no key with an empty value: a question
\* without an answer at submission time is an absent key.
C13_UnansweredKeysAbsent ==
  lastPayload # <<>> =>
    \A k \in DOMAIN lastPayload[1] : lastPayload[1][k] # <<>>

\* C14: a loaded test with estimated_time m starts the countdown at m*60; an
\* interval callback runs only while the quiz is not submitted and takes the
\* countdown from a positive value down by exactly 1; the countdown is never
\* negative; a test without estimated_time has no countdown and no automatic
\* submission.
C14_Countdown ==
  /\ [](timeRemaining = Null \/ timeRemaining >= 0)
  /\ []((qStatus = "loaded" /\ testData.estimated_time = 0) =>
          (timeRemaining = Null /\ tickCount = 0 /\ autoCount = 0))
  /\ [][(qStatus' = "loaded" /\ qStatus # "loaded"
           /\ testData'.estimated_time >= 1) =>
          timeRemaining' = testData'.estimated_time * SecondsPerMinute]_vars
  /\ [][tickCount' # tickCount =>
          /\ ~isSubmitted
          /\ timeRemaining >= 1
          /\ timeRemaining' = timeRemaining - 1]_vars
  /\ [][(qStatus = "loaded" /\ timeRemaining' # timeRemaining) =>
          tickCount' = tickCount + 1]_vars

C14_Witness ==
  /\ testData.estimated_time = 1
  /\ tickCount = 2
  /\ timeRemaining = SecondsPerMinute - 2
  /\ ~isSubmitted

\* C15: a manual submission request is issued only from the open
\* confirmation dialog, and the dialog opens only by a user event that issues
\* no request; a timer submission request is issued whatever the dialog's
\* state and leaves it alone; every request of either kind is one more
\* request of the same mutation.
C15_ManualNeedsConfirmation ==
  /\ [](submitCount = manualCount + autoCount)
  /\ [][manualCount' # manualCount =>
          /\ showSubmitConfirm
          /\ manualTouched'
          /\ submitCount' = submitCount + 1
          /\ mutStatus' = "pending"]_vars
  /\ [][showSubmitConfirm' # showSubmitConfirm =>
          /\ manualTouched'
          /\ submitCount' = submitCount]_vars
  /\ [][autoCount' # autoCount =>
          /\ showSubmitConfirm' = showSubmitConfirm
          /\ submitCount' = submitCount + 1
          /\ mutStatus' = "pending"]_vars

C15_Witness ==
  /\ manualCount = 1
  /\ autoCount = 1
  /\ submitCount = 2

\* the entries of a sequence
Range(seq) == {seq[i] : i \in DOMAIN seq}

\* C16: for every multi-select question with a stored answer, the stored
\* string split on commas is the list of the option keys currently checked,
\* without duplicates; a check or uncheck event leaves the answers of the
\* other question indices as they were.
C16_StoredIsCheckedList ==
  /\ [](LoadedNonEmpty =>
          \A q \in DOMAIN answers :
            testData.types[q + 1] = "multi_select" =>
              LET list == SplitComma(answers[q])
              IN  /\ Range(list) = checkedKeys[q]
                  /\ Len(list) = Cardinality(checkedKeys[q]))
  /\ [][\A k \in OptionKeys, c \in BOOLEAN :
          handleMultiSelectChange(k, c) =>
            \A q \in DOMAIN answers \ {currentQuestion} :
              q \in DOMAIN answers' /\ answers'[q] = answers[q]]_vars

\* ------------------------------------------------ QuizGenerator: claims

\* a response to the generation request arrives in this step
GenerateAnswered == genRequest # "none" /\ genRequest' = "none"

\* C17: a run of handleGenerateQuiz issues a generation request exactly when
\* there is a source (an accepted URL or file) and an enabled question type;
\* with one accepted URL and exactly one enabled type the generate button is
\* enabled unless a generation is loading.
C17_GenerateGuard ==
  /\ [][handleGenerateQuiz =>
          ((genRequest' # "none") <=> (hasContent /\ hasQuestionTypes))]_vars
  /\ [][(genRequest' # "none" /\ genRequest = "none") =>
          (hasContent /\ hasQuestionTypes)]_vars
  /\ []((Len(urlsList) = 1 /\ Cardinality(selectedTypes) = 1 /\ ~loading) =>
          canGenerate)

C17_Witness ==
  /\ genRequest = "links"
  /\ Len(urlsList) = 1
  /\ files = <<>>
  /\ Cardinality(selectedTypes) = 1

\* C18: a failed generation (request error or response without id) leaves
\* the URL list, the file list, question count, question types and
\* difficulty as they were; a successful one empties both lists; the entry
\* part of generate() changes none of them; loading is false after every
\* outcome.
C18_GenerateFrame ==
  /\ [][(GenerateAnswered /\ ~genNavigated') =>
          /\ UNCHANGED <<urlsList, files, questionCount, questionTypes,
                         difficulty>>
          /\ ~loading']_vars
  /\ [][(GenerateAnswered /\ genNavigated') =>
          /\ urlsList' = <<>> /\ files' = <<>>
          /\ UNCHANGED <<questionCount, questionTypes, difficulty>>
          /\ ~loading']_vars
  /\ [][handleGenerateQuiz =>
          /\ UNCHANGED <<urlsList, files, questionCount, questionTypes,
                         difficulty>>
          /\ genRequest' = "none" => ~loading']_vars
  /\ [](loading <=> genRequest # "none")

C18_Witness ==
  /\ toasts = <<Toast("Generation failed", Null)>>
  /\ ~loading
  /\ urlsList # <<>>
  /\ files # <<>>
  /\ questionCount # DefaultQuestionCount

\* C19: every entry of the accepted URL list is non-blank and constructs as
\* a URL (with http:// in front when it has no scheme), and no entry occurs
\* twice.
C19_UrlListValidDistinct ==
  \A i \in DOMAIN urlsList :
    /\ Trim(urlsList[i]) # <<>>
    /\ ConstructsUrl(IF IncludesScheme(urlsList[i])
                       THEN urlsList[i] ELSE HttpPrefix \o urlsList[i])
    /\ \A j \in DOMAIN urlsList : j # i => urlsList[j] # urlsList[i]

C19_Witness ==
  /\ Len(urlsList) = 2
  /\ toasts = <<Toast("Some URLs invalid", 1), Toast("URLs Added", 2)>>

\* C20: a file selection appends exactly its PDFs (PDF mime type or .pdf
\* extension) to the accepted file list, and when it holds q > 0 other files
\* the notification about the dropped files shows the count q.
C20_FileIntake ==
  [][\A chosen \in Selections :
       onFilesSelected(chosen) =>
         LET pdfs == SelectSeq(chosen, IsPdf)
             q == Len(chosen) - Len(pdfs)
         IN  /\ files' = files \o pdfs
             /\ q > 0 => \E i \in DOMAIN toasts' :
                           /\ toasts'[i].title = "Only PDFs allowed"
                           /\ toasts'[i].count = q]_vars

\* C21: the question count starts at 15 and is always an integer in [1, 50];
\* typing 999 gives 50, typing 0 or nothing gives 1, a form reset gives 15.
C21_QuestionCountClamped ==
  /\ questionCount = 15
  /\ [](questionCount \in 1..50)
  /\ [][onQuestionCountChange(<<"9", "9", "9">>) => questionCount' = 50]_vars
  /\ [][(onQuestionCountChange(<<"0">>) \/ onQuestionCountChange(<<>>)) =>
          questionCount' = 1]_vars
  /\ [][resetForm => questionCount' = 15]_vars

C21_Witness ==
  /\ questionCount = 50
  /\ difficulty = "hard"

\* C22: saving with an empty score buffer sends no request; otherwise it
\* sends one request whose body is the whole buffered map and leaves the
\* buffer as it was, so a second save of the same buffer sends the same
\* scores again.
C22_SaveSendsBuffer ==
  [][saveScores =>
       /\ selfScores' = selfScores
       /\ IF DOMAIN selfScores = {}
            THEN sentScores' = sentScores /\ ~savePending'
            ELSE sentScores' = <<selfScores>> /\ savePending']_vars

\* a second save is running after a first one succeeded, with the same body
C22_Witness ==
  /\ resToast = "Self-assessment scores updated successfully!"
  /\ savePending
  /\ sentScores = <<selfScores>>
  /\ DOMAIN selfScores = 0..1

\* C23: an explanation request for a question is issued only when no request
\* for that question is in flight and no explanation text for it has been
\* loaded; a failed request clears the question's loading flag, after which
\* the explanation can be requested again.
C23_ExplanationFetchedOnce ==
  /\ [][\A i \in 0..(MaxResultQuestions - 1) :
          explInFlight'[i] > explInFlight[i] =>
            /\ explInFlight[i] = 0
            /\ i \notin explanationLoading
            /\ ~HasExplanation(i)]_vars
  /\ [][\A i \in 0..(MaxResultQuestions - 1) :
          getExplanationDone(i, "error") =>
            /\ i \notin explanationLoading'
            /\ CanExplain(i)']_vars

\* question 0 was explained after an earlier request for it had failed
C23_Witness ==
  /\ Len(submission) = 1
  /\ HasExplanation(0)
  /\ resToast = "Error getting explanation"

\* C24: for every open-ended question the score that enters the average is
\* the buffered self-score once one has been set (the prior server score only
\* when none has been set), and it agrees with the value on the question's
\* slider.
C24_StatisticsUseBufferedScore ==
  resStatus = "loaded" =>
    \A i \in ResultIndices :
      ~IsObjective(QuestionAt(i)) =>
        /\ StatScore(i) = SliderValue(i)
        /\ StatScore(i) = IF i \in DOMAIN selfScores
                            THEN selfScores[i]
                            ELSE QuestionAt(i).user_score

\* C25: once no folder-content load is in flight, the folder content on
\* display (the checkboxes) is that of the currently selected folder, whatever
\* the order in which the responses arrived.
C25_ContentOfSelectedFolder ==
  ( /\ \A f \in FolderIds : contentLoads[f] = 0
    /\ selectedFolder \in FolderIds
    /\ folderContent # NoContent )
    => folderContent = selectedFolder

\* C26: when a clear succeeds while a send is in flight, the message list
\* stays empty when that send resolves: neither its assistant reply nor its
\* error message is appended after the clear.
C26_ClearedListStaysEmpty ==
  [][( /\ lastOp = <<"clearChatHistory", "ok">>
       /\ \E i \in DOMAIN sends, ok \in BOOLEAN : sendChatMessageDone(i, ok) )
       => messages' = <<>>]_vars

\* C27: on the chat page a history load that completes never removes a
\* message from the list; only a clear removes messages.
C27_HistoryLoadKeepsMessages ==
  [][( /\ surface = "page"
       /\ \E ok \in BOOLEAN : loadChatHistoryDone(ok) )
       => /\ Len(messages') >= Len(messages)
          /\ Range(messages) \subseteq Range(messages')]_vars

\* C28: every generation request sent with test type normal carries at least
\* one link id, and every id it carries is the id of a link that is in the
\* folder when the request is sent.
C28_NormalRequestHasLiveLinks ==
  [][(submitGen /\ genPending' /\ genPayload'.test_type = "normal") =>
       /\ Len(genPayload'.link_ids) > 0
       /\ Range(genPayload'.link_ids) \subseteq Range(serverLinks)]_vars

\* C29: when the fetch failed or the fetched test has no questions, the view
\* shows its full-page error state and no submission request is ever issued,
\* the countdown of an empty test with an estimated time included.
C29_NoSubmitWithoutQuestions ==
  (qStatus = "error" \/ (qStatus = "loaded" /\ testData.n = 0))
    => /\ ~Rendered
       /\ submitCount = 0

\* C30: after closeChatbot on an open chatbot the stored context is kept
\* while the 300 ms run; when they have elapsed it is cleared if the chatbot was
\* not reopened in between, and kept if it was.
C30_ContextClearedAfterDelay ==
  /\ [][clockStep => initialContext' = initialContext]_vars
  /\ [][(closeTimeout /\ Head(closeTimers).isOpen) =>
          initialContext' = IF Head(closeTimers).reopened
                              THEN initialContext ELSE Undefined]_vars

====
